---- MODULE Spec2Model ----
(***************************************************************************)
(* Model of the batch conversion pipeline (internal/engine/processor.go),  *)
(* the encoding detector and font table (internal/engine) and the two      *)
(* legacy decoders (internal/converter).                                   *)
(*                                                                         *)
(* Text is a sequence of Unicode code points; font names are strings.      *)
(***************************************************************************)
EXTENDS Integers, Sequences, FiniteSets, TLC

(***************************************************************************)
(* internal/converter: encoding types                                      *)
(***************************************************************************)
EncodingVNI == "VNI"

EncodingTCVN3 == "TCVN3"

EncodingUnkown == "UNKNOWN"

(***************************************************************************)
(* internal/converter/vni.go: tables                                       *)
(***************************************************************************)
\* marker rune -> tone type
vniToneMarkers ==
    (194 :> "circumflex") @@
    (226 :> "circumflex") @@
    (202 :> "circumflex") @@
    (234 :> "circumflex") @@
    (212 :> "circumflex") @@
    (244 :> "circumflex") @@
    (216 :> "grave") @@
    (248 :> "grave") @@
    (217 :> "acute") @@
    (249 :> "acute") @@
    (219 :> "hook") @@
    (251 :> "hook") @@
    (220 :> "tilde") @@
    (252 :> "tilde") @@
    (207 :> "dot") @@
    (239 :> "dot") @@
    (214 :> "horn") @@
    (246 :> "horn")

\* base vowel -> tone type -> combined vowel
vowelCombinations ==
    (97 :> ("circumflex" :> 226 @@ "grave" :> 224 @@ "acute" :> 225 @@ "hook" :> 7843 @@ "tilde" :> 227 @@ "dot" :> 7841)) @@
    (65 :> ("circumflex" :> 194 @@ "grave" :> 192 @@ "acute" :> 193 @@ "hook" :> 7842 @@ "tilde" :> 195 @@ "dot" :> 7840)) @@
    (101 :> ("circumflex" :> 234 @@ "grave" :> 232 @@ "acute" :> 233 @@ "hook" :> 7867 @@ "tilde" :> 7869 @@ "dot" :> 7865)) @@
    (69 :> ("circumflex" :> 202 @@ "grave" :> 200 @@ "acute" :> 201 @@ "hook" :> 7866 @@ "tilde" :> 7868 @@ "dot" :> 7864)) @@
    (105 :> ("grave" :> 236 @@ "acute" :> 237 @@ "hook" :> 7881 @@ "tilde" :> 297 @@ "dot" :> 7883)) @@
    (73 :> ("grave" :> 204 @@ "acute" :> 205 @@ "hook" :> 7880 @@ "tilde" :> 296 @@ "dot" :> 7882)) @@
    (111 :> ("circumflex" :> 244 @@ "grave" :> 242 @@ "acute" :> 243 @@ "hook" :> 7887 @@ "tilde" :> 245 @@ "dot" :> 7885)) @@
    (79 :> ("circumflex" :> 212 @@ "grave" :> 210 @@ "acute" :> 211 @@ "hook" :> 7886 @@ "tilde" :> 213 @@ "dot" :> 7884)) @@
    (117 :> ("grave" :> 249 @@ "acute" :> 250 @@ "hook" :> 7911 @@ "tilde" :> 361 @@ "dot" :> 7909)) @@
    (85 :> ("grave" :> 217 @@ "acute" :> 218 @@ "hook" :> 7910 @@ "tilde" :> 360 @@ "dot" :> 7908)) @@
    (121 :> ("grave" :> 7923 @@ "acute" :> 253 @@ "hook" :> 7927 @@ "tilde" :> 7929 @@ "dot" :> 7925)) @@
    (89 :> ("grave" :> 7922 @@ "acute" :> 221 @@ "hook" :> 7926 @@ "tilde" :> 7928 @@ "dot" :> 7924))

\* combined vowel -> tone type -> vowel with both marks
combinedVowelTones ==
    (194 :> ("grave" :> 7846 @@ "acute" :> 7844 @@ "hook" :> 7848 @@ "tilde" :> 7850 @@ "dot" :> 7852)) @@
    (226 :> ("grave" :> 7847 @@ "acute" :> 7845 @@ "hook" :> 7849 @@ "tilde" :> 7851 @@ "dot" :> 7853)) @@
    (202 :> ("grave" :> 7872 @@ "acute" :> 7870 @@ "hook" :> 7874 @@ "tilde" :> 7876 @@ "dot" :> 7878)) @@
    (234 :> ("grave" :> 7873 @@ "acute" :> 7871 @@ "hook" :> 7875 @@ "tilde" :> 7877 @@ "dot" :> 7879)) @@
    (212 :> ("grave" :> 7890 @@ "acute" :> 7888 @@ "hook" :> 7892 @@ "tilde" :> 7894 @@ "dot" :> 7896)) @@
    (244 :> ("grave" :> 7891 @@ "acute" :> 7889 @@ "hook" :> 7893 @@ "tilde" :> 7895 @@ "dot" :> 7897)) @@
    (258 :> ("grave" :> 7856 @@ "acute" :> 7854 @@ "hook" :> 7858 @@ "tilde" :> 7860 @@ "dot" :> 7862)) @@
    (259 :> ("grave" :> 7857 @@ "acute" :> 7855 @@ "hook" :> 7859 @@ "tilde" :> 7861 @@ "dot" :> 7863)) @@
    (416 :> ("grave" :> 7900 @@ "acute" :> 7898 @@ "hook" :> 7902 @@ "tilde" :> 7904 @@ "dot" :> 7906)) @@
    (417 :> ("grave" :> 7901 @@ "acute" :> 7899 @@ "hook" :> 7903 @@ "tilde" :> 7905 @@ "dot" :> 7907)) @@
    (431 :> ("grave" :> 7914 @@ "acute" :> 7912 @@ "hook" :> 7916 @@ "tilde" :> 7918 @@ "dot" :> 7920)) @@
    (432 :> ("grave" :> 7915 @@ "acute" :> 7913 @@ "hook" :> 7917 @@ "tilde" :> 7919 @@ "dot" :> 7921))

\* the old/new pairs of legacyReplacer, in argument order
vniLegacyPairs ==
    << <<241, 273>>,
       <<174, 272>>,
       <<209, 272>>,
       <<30, 7843>>,
       <<181, 7841>>,
       <<199, 7847>>,
       <<200, 7849>>,
       <<201, 7851>>,
       <<203, 7853>>,
       <<202, 7845>> >>

\* the old/new pairs of the TCVN3 replacer, in argument order
tcvn3Pairs ==
    << <<184, 225>>,
       <<181, 224>>,
       <<182, 7843>>,
       <<183, 227>>,
       <<185, 7841>>,
       <<162, 226>>,
       <<202, 7845>>,
       <<184, 225>>,
       <<181, 224>>,
       <<182, 7843>>,
       <<183, 227>>,
       <<185, 7841>>,
       <<168, 259>>,
       <<190, 7855>>,
       <<187, 7857>>,
       <<188, 7859>>,
       <<189, 7861>>,
       <<198, 7863>>,
       <<162, 226>>,
       <<202, 7845>>,
       <<199, 7847>>,
       <<200, 7849>>,
       <<201, 7851>>,
       <<203, 7853>>,
       <<209, 233>>,
       <<204, 232>>,
       <<208, 7867>>,
       <<206, 7869>>,
       <<207, 7865>>,
       <<163, 234>>,
       <<213, 7871>>,
       <<210, 7873>>,
       <<211, 7875>>,
       <<212, 7877>>,
       <<214, 7879>>,
       <<221, 237>>,
       <<216, 236>>,
       <<220, 7881>>,
       <<222, 297>>,
       <<223, 7883>>,
       <<243, 243>>,
       <<242, 242>>,
       <<244, 245>>,
       <<245, 7885>>,
       <<246, 244>>,
       <<174, 273>> >>


(***************************************************************************)
(* strings helpers of the Go standard library                              *)
(***************************************************************************)
\* strings.HasPrefix
HasPrefix(s, prefix) ==
    /\ Len(s) >= Len(prefix)
    /\ SubSeq(s, 1, Len(prefix)) = prefix

\* strings.ContainsAny over code points
ContainsAny(text, chars) == \E i \in 1..Len(text) : text[i] \in chars

\* strings.TrimSpace(text) == "" : every code point is white space
IsBlankText(text) ==
    \A i \in 1..Len(text) :
        text[i] \in {9, 10, 11, 12, 13, 32, 133, 160, 5760, 8232, 8233, 8239, 8287, 12288}
                    \cup (8192..8202)

\* strings.ReplaceAll: non-overlapping matches, left to right
RECURSIVE ReplaceAll(_, _, _)
ReplaceAll(s, old, new) ==
    IF Len(s) < Len(old) THEN s
    ELSE IF SubSeq(s, 1, Len(old)) = old
         THEN new \o ReplaceAll(SubSeq(s, Len(old) + 1, Len(s)), old, new)
         ELSE <<Head(s)>> \o ReplaceAll(Tail(s), old, new)

\* the replacement of one code point by a strings.Replacer whose old strings
\* are single code points: the earliest pair of the argument list wins
ReplacerLookup(pairs, r) ==
    LET hits == {k \in 1..Len(pairs) : pairs[k][1] = r}
    IN  IF hits = {} THEN r
        ELSE pairs[CHOOSE k \in hits : \A j \in hits : k <= j][2]

\* strings.Replacer.Replace: one pass, the output is not scanned again
ReplacerReplace_DropsUnmatched(pairs, text) ==
    LET IsKey(r) == \E k \in 1..Len(pairs) : pairs[k][1] = r
        kept == SelectSeq(text, IsKey)
    IN  [i \in 1..Len(kept) |-> ReplacerLookup(pairs, kept[i])]

ReplacerReplace_Repeats(pairs, text) ==
    [i \in 1..Len(text) |-> ReplacerLookup(pairs, ReplacerLookup(pairs, text[i]))]

ReplacerReplace(pairs, text) ==
    [i \in 1..Len(text) |-> ReplacerLookup(pairs, text[i])]

(***************************************************************************)
(* internal/converter/vni.go: the combining-mark decoder                   *)
(***************************************************************************)
NotCombined(result) == [ok |-> FALSE, result |-> result]

Combined(result) == [ok |-> TRUE, result |-> result]

SetLast(result, c) == [result EXCEPT ![Len(result)] = c]

\* the index expression result[len(result)-1] panics on an empty slice; a
\* panic ends the call, and Panicked stands for a call ended that way
IndexPanics(result) == Len(result) = 0

Panicked == <<-1>>

preprocessVNI_Nothing(text) == text

preprocessVNI(text) ==
    LET t1 == ReplaceAll(text, <<214, 212>>, <<431, 416>>)
        t2 == ReplaceAll(t1, <<214, 79>>, <<431, 416>>)
    IN  ReplaceAll(t2, <<214, 248>>, <<7914>>)

combineToneStandard(lastChar, toneType) ==
    IF /\ lastChar \in DOMAIN combinedVowelTones
       /\ toneType \in DOMAIN combinedVowelTones[lastChar]
    THEN [ok |-> TRUE, r |-> combinedVowelTones[lastChar][toneType]]
    ELSE IF /\ lastChar \in DOMAIN vowelCombinations
            /\ toneType \in DOMAIN vowelCombinations[lastChar]
         THEN [ok |-> TRUE, r |-> vowelCombinations[lastChar][toneType]]
         ELSE [ok |-> FALSE, r |-> 0]

checkPrevVowel(result) ==
    /\ Len(result) > 0
    /\ \/ result[Len(result)] \in DOMAIN vowelCombinations
       \/ result[Len(result)] \in DOMAIN combinedVowelTones

combineToneSpecial(result, r, toneType) ==
    LET lastChar == result[Len(result)]
    IN  IF IndexPanics(result) THEN Combined(Panicked)
        ELSE IF r \in {214, 246} /\ toneType = "horn"
        THEN IF checkPrevVowel(result)
             THEN Combined(Append(result, 7879))
             ELSE IF r = 214 THEN Combined(Append(result, 431))
                             ELSE Combined(Append(result, 432))
        ELSE IF /\ r \in {194, 226}
                /\ lastChar \in DOMAIN vowelCombinations
                /\ "circumflex" \in DOMAIN vowelCombinations[lastChar]
        THEN Combined(SetLast(result, vowelCombinations[lastChar]["circumflex"]))
        ELSE IF r \in {216, 248} /\ combineToneStandard(lastChar, "grave").ok
        THEN Combined(SetLast(result, combineToneStandard(lastChar, "grave").r))
        ELSE IF r \in {207, 239} /\ combineToneStandard(lastChar, "dot").ok
        THEN Combined(SetLast(result, combineToneStandard(lastChar, "dot").r))
        ELSE NotCombined(result)

tryCombineTone_NoEmptyCheck(result, r, toneType) ==
    IF IndexPanics(result) THEN Combined(Panicked)
    ELSE IF combineToneStandard(result[Len(result)], toneType).ok
         THEN Combined(SetLast(result, combineToneStandard(result[Len(result)], toneType).r))
         ELSE combineToneSpecial(result, r, toneType)

tryCombineTone(result, r, toneType) ==
    IF Len(result) = 0 THEN NotCombined(result)
    ELSE IF IndexPanics(result) THEN Combined(Panicked)
    ELSE IF combineToneStandard(result[Len(result)], toneType).ok
         THEN Combined(SetLast(result, combineToneStandard(result[Len(result)], toneType).r))
         ELSE combineToneSpecial(result, r, toneType)

tryCombineOther_MarkerCase(result, r) ==
    IF r = 209 THEN Combined(Append(result, 272))
    ELSE IF r = 241 THEN Combined(Append(result, 273))
    ELSE IF /\ r \in {197, 229}
            /\ Len(result) > 0
            /\ result[Len(result)] \in {65, 97}
         THEN IF r = 197
              THEN Combined(SetLast(result, 258))
              ELSE Combined(SetLast(result, 259))
         ELSE NotCombined(result)

tryCombineOther(result, r) ==
    IF r = 209 THEN Combined(Append(result, 272))
    ELSE IF r = 241 THEN Combined(Append(result, 273))
    ELSE IF r \in {197, 229} /\ Len(result) > 0 /\ IndexPanics(result)
         THEN Combined(Panicked)
    ELSE IF /\ r \in {197, 229}
            /\ Len(result) > 0
            /\ result[Len(result)] \in {65, 97}
         THEN IF result[Len(result)] = 65
              THEN Combined(SetLast(result, 258))
              ELSE Combined(SetLast(result, 259))
         ELSE NotCombined(result)

\* one iteration of the loop of convertVNICombining
vniStep_DropsMarker(result, r) ==
    IF r \in DOMAIN vniToneMarkers /\ tryCombineTone(result, r, vniToneMarkers[r]).ok
    THEN tryCombineTone(result, r, vniToneMarkers[r]).result
    ELSE IF tryCombineOther(result, r).ok
         THEN tryCombineOther(result, r).result
         ELSE IF r \in DOMAIN vniToneMarkers THEN result
         ELSE Append(result, r)

vniStep_DropsUnknown(result, r) ==
    IF r \in DOMAIN vniToneMarkers /\ tryCombineTone(result, r, vniToneMarkers[r]).ok
    THEN tryCombineTone(result, r, vniToneMarkers[r]).result
    ELSE IF tryCombineOther(result, r).ok
         THEN tryCombineOther(result, r).result
         ELSE IF r > 127 /\ r \notin DOMAIN vniToneMarkers THEN result
         ELSE Append(result, r)

vniStep(result, r) ==
    IF r \in DOMAIN vniToneMarkers /\ tryCombineTone(result, r, vniToneMarkers[r]).ok
    THEN tryCombineTone(result, r, vniToneMarkers[r]).result
    ELSE IF tryCombineOther(result, r).ok
         THEN tryCombineOther(result, r).result
         ELSE Append(result, r)

RECURSIVE vniScan(_, _, _)
vniScan(runes, i, result) ==
    IF result = Panicked THEN Panicked
    ELSE IF i > Len(runes) THEN result
    ELSE vniScan(runes, i + 1, vniStep(result, runes[i]))

convertVNICombining(text) == vniScan(preprocessVNI(text), 1, <<>>)

VNIToUnicode(text) == ReplacerReplace(vniLegacyPairs, convertVNICombining(text))

(***************************************************************************)
(* internal/converter/tcvn3.go: the precomposed-glyph decoder              *)
(***************************************************************************)
TCVN3ToUnicode(text) == ReplacerReplace(tcvn3Pairs, text)

(***************************************************************************)
(* internal/engine: detector and font table                                *)
(***************************************************************************)
VNIContentChars ==
    {194, 202, 212, 216, 217, 219, 220, 207, 197, 214, 241, 209,
     226, 234, 244, 248, 249, 251, 252, 239, 229, 246}

TCVN3ContentChars == {246, 244, 226, 234, 238, 185}

DetectEncoding_ContentFirst(fontName, text) ==
    IF ContainsAny(text, VNIContentChars) THEN EncodingVNI
    ELSE IF ContainsAny(text, TCVN3ContentChars) THEN EncodingTCVN3
    ELSE IF HasPrefix(fontName, "VNI-") THEN EncodingVNI
    ELSE IF HasPrefix(fontName, ".Vn") THEN EncodingTCVN3
    ELSE EncodingUnkown

DetectEncoding_TCVN3First(fontName, text) ==
    IF HasPrefix(fontName, "VNI-") THEN EncodingVNI
    ELSE IF HasPrefix(fontName, ".Vn") THEN EncodingTCVN3
    ELSE IF ContainsAny(text, TCVN3ContentChars) THEN EncodingTCVN3
    ELSE IF ContainsAny(text, VNIContentChars) THEN EncodingVNI
    ELSE EncodingUnkown

DetectEncoding(fontName, text) ==
    IF HasPrefix(fontName, "VNI-") THEN EncodingVNI
    ELSE IF HasPrefix(fontName, ".Vn") THEN EncodingTCVN3
    ELSE IF ContainsAny(text, VNIContentChars) THEN EncodingVNI
    ELSE IF ContainsAny(text, TCVN3ContentChars) THEN EncodingTCVN3
    ELSE EncodingUnkown

\* the revision of the detector with the other set of VNI code points
VNIContentCharsEarlier == {214, 219, 220, 221, 222, 223, 230, 231, 232, 233}

DetectEncodingEarlier(fontName, text) ==
    IF HasPrefix(fontName, "VNI-") THEN EncodingVNI
    ELSE IF HasPrefix(fontName, ".Vn") THEN EncodingTCVN3
    ELSE IF ContainsAny(text, VNIContentCharsEarlier) THEN EncodingVNI
    ELSE IF ContainsAny(text, TCVN3ContentChars) THEN EncodingTCVN3
    ELSE EncodingUnkown

FontMap ==
    ("VNI-Times" :> "Times New Roman") @@
    ("VNI-Arial" :> "Arial") @@
    ("VNI-Helve" :> "Helvetica") @@
    ("VNI-Hobo" :> "Hobo Std") @@
    (".VnTime" :> "Times New Roman") @@
    (".VnTimeH" :> "Times New Roman") @@
    (".VnArial" :> "Arial") @@
    (".VnHelve" :> "Helvetica")

(***************************************************************************)
(* Styled runs.  A run's Font is a pointer in the code: isNil is the nil   *)
(* pointer, the other fields are those of the excelize.Font it points to.  *)
(***************************************************************************)
NilFont ==
    [isNil |-> TRUE, Family |-> "", Size |-> 0, Bold |-> FALSE,
     Italic |-> FALSE, Underline |-> "", Color |-> ""]

\* &excelize.Font{...} with every field of the literal given
MkStyledFont(family, size, bold, italic, underline, color) ==
    [isNil |-> FALSE, Family |-> family, Size |-> size, Bold |-> bold,
     Italic |-> italic, Underline |-> underline, Color |-> color]

MkFont(family, size, bold) == MkStyledFont(family, size, bold, FALSE, "", "")

MkRun(text, font) == [Text |-> text, Font |-> font]

\* the font name the worker detects with
RunFontName(run) == IF run.Font.isNil THEN "" ELSE run.Font.Family

\* the font the worker leaves in a decoded run
MappedFont_KeepsUnmapped(run) ==
    LET fontName == RunFontName(run)
        base == IF run.Font.isNil THEN MkFont("", 0, FALSE) ELSE run.Font
    IN  IF fontName \in DOMAIN FontMap
        THEN [base EXCEPT !.Family = FontMap[fontName]]
        ELSE base

MappedFont_FreshFont(run) ==
    LET fontName == RunFontName(run)
    IN  IF fontName \in DOMAIN FontMap
        THEN MkFont(FontMap[fontName], 11, FALSE)
        ELSE MkFont("Arial", 11, FALSE)

MappedFont(run) ==
    LET fontName == RunFontName(run)
        base == IF run.Font.isNil THEN MkFont("", 0, FALSE) ELSE run.Font
    IN  IF fontName \in DOMAIN FontMap
        THEN [base EXCEPT !.Family = FontMap[fontName]]
        ELSE [base EXCEPT !.Family = "Arial"]

\* the encoding the worker's loop detects for the i-th run of a job
RunEncoding_FirstRun(runs, i) == DetectEncoding(RunFontName(runs[1]), runs[1].Text)

RunEncoding(runs, i) == DetectEncoding(RunFontName(runs[i]), runs[i].Text)

\* the switch of the worker's loop: the run it appends for a run it
\* classified as encoding
TransformAs_DefaultsUnknown(encoding, run) ==
    IF encoding = EncodingVNI
    THEN MkRun(VNIToUnicode(run.Text), MappedFont(run))
    ELSE IF encoding = EncodingTCVN3
    THEN MkRun(TCVN3ToUnicode(run.Text), MappedFont(run))
    ELSE MkRun(run.Text, MappedFont(run))

TransformAs(encoding, run) ==
    IF encoding = EncodingVNI
    THEN MkRun(VNIToUnicode(run.Text), MappedFont(run))
    ELSE IF encoding = EncodingTCVN3
    THEN MkRun(TCVN3ToUnicode(run.Text), MappedFont(run))
    ELSE MkRun(run.Text, run.Font)

\* the body of the worker's loop over job.RichText: the run it appends
TransformRun(run) == TransformAs(DetectEncoding(RunFontName(run), run.Text), run)

\* the worker's loop from the i-th run on: newRuns = append(newRuns, run)
RECURSIVE WorkerLoop_DropsUnknown(_, _, _)
WorkerLoop_DropsUnknown(runs, i, newRuns) ==
    IF i > Len(runs) THEN newRuns
    ELSE IF RunEncoding(runs, i) = EncodingUnkown
    THEN WorkerLoop_DropsUnknown(runs, i + 1, newRuns)
    ELSE WorkerLoop_DropsUnknown(runs, i + 1,
             Append(newRuns, TransformAs(RunEncoding(runs, i), runs[i])))

RECURSIVE WorkerLoop(_, _, _)
WorkerLoop(runs, i, newRuns) ==
    IF i > Len(runs) THEN newRuns
    ELSE WorkerLoop(runs, i + 1,
             Append(newRuns, TransformAs(RunEncoding(runs, i), runs[i])))

\* the worker's loop: newRuns starts empty with capacity len(job.RichText)
TransformRuns(runs) == WorkerLoop(runs, 1, <<>>)

\* the job's runs after the worker's loop: a decoded run whose Font is not
\* nil had the Family of the shared Font overwritten through the pointer
AliasedRun(run) ==
    IF DetectEncoding(RunFontName(run), run.Text) = EncodingUnkown \/ run.Font.isNil
    THEN run
    ELSE MkRun(run.Text, MappedFont(run))

AliasedRuns(runs) == [i \in 1..Len(runs) |-> AliasedRun(runs[i])]

(***************************************************************************)
(* The spreadsheet document (excelize.File) as the pipeline sees it        *)
(***************************************************************************)
\* sheets of the document, in GetSheetList order
SheetList == <<"Sheet1", "Sheet2">>

\* rows per sheet and cells per row of the modelled documents
NumRows == 1

NumCols == 2

\* at most this many cells of a document are non-blank
MaxJobs == 2

\* at most this many library calls of one Run fail
MaxFaults == 1

\* capacity of p.jobs and of p.results (100 in NewProcessor), of the progress
\* channel (100 in App.Process) and the number of workers (10 in Run), scaled
JobsCap == 1

ResultsCap == 1

ProgressCap == 1

workerCount == 2

Workers == 1..workerCount

SeqToSet(s) == {s[i] : i \in 1..Len(s)}

\* excelize.CoordinatesToCellName for the columns A..Z
CoordinatesToCellName(col, row) ==
    SubSeq("ABCDEFGHIJKLMNOPQRSTUVWXYZ", col, col) \o ToString(row)

\* a cell is addressed by sheet name and cell name
Cells ==
    {<<SheetList[s], CoordinatesToCellName(c, r)>> :
        s \in 1..Len(SheetList), r \in 1..NumRows, c \in 1..NumCols}

\* cell contents: the value Rows yields, the rich-text runs (none for a plain
\* cell) and the font of the cell style (NilFont when the style has none)
MkCell(text, rich, style) == [Text |-> text, Rich |-> rich, Style |-> style]

BlankCell == MkCell(<<>>, <<>>, NilFont)

\* "iÖ" in the style font VNI-Times
PlainCell == MkCell(<<105, 214>>, <<>>, MkFont("VNI-Times", 12, FALSE))

\* the runs "H" in Arial and "Cö" in .VnTime bold italic underlined red
RichCell ==
    MkCell(<<72, 67, 246>>,
           <<MkRun(<<72>>, MkFont("Arial", 0, FALSE)),
             MkRun(<<67, 246>>, MkStyledFont(".VnTime", 0, TRUE, TRUE, "single", "FF0000"))>>,
           NilFont)

\* "H" in the style font Arial
LatinCell == MkCell(<<72>>, <<>>, MkFont("Arial", 11, FALSE))

CellValues == {BlankCell, PlainCell, RichCell, LatinCell}

NonBlank(doc, cells) == {c \in cells : ~IsBlankText(doc[c].Text)}

Docs == {d \in [Cells -> CellValues] : Cardinality(NonBlank(d, Cells)) <= MaxJobs}

\* the sheet names a caller asks for; "" asks for every sheet
SheetNames == {"", "Sheet2", "Sheet9"}

InputPath == "contract.xlsx"

Timestamps == {"2026_01_21_10_30_45"}

\* the text of a cell that holds rich text is the concatenation of its runs
RECURSIVE ConcatText(_)
ConcatText(runs) ==
    IF runs = <<>> THEN <<>> ELSE Head(runs).Text \o ConcatText(Tail(runs))

\* filepath.Ext: the suffix from the last dot of the last path element
RECURSIVE ExtFrom(_, _)
ExtFrom(path, i) ==
    IF i < 1 THEN ""
    ELSE IF SubSeq(path, i, i) = "/" THEN ""
    ELSE IF SubSeq(path, i, i) = "." THEN SubSeq(path, i, Len(path))
    ELSE ExtFrom(path, i - 1)

Ext(path) == ExtFrom(path, Len(path))

\* strings.TrimSuffix
TrimSuffix(s, suffix) ==
    IF /\ Len(s) >= Len(suffix)
       /\ SubSeq(s, Len(s) - Len(suffix) + 1, Len(s)) = suffix
    THEN SubSeq(s, 1, Len(s) - Len(suffix))
    ELSE s

\* fmt.Sprintf("%s_output_%s%s", base, timestamp, ext)
OutputPath_KeepsName(inputPath, timestamp) == inputPath

OutputPath(inputPath, timestamp) ==
    TrimSuffix(inputPath, Ext(inputPath)) \o "_output_" \o timestamp \o Ext(inputPath)

(***************************************************************************)
(* Jobs and results                                                        *)
(***************************************************************************)
MkJob(sheet, axis, text, runs, isRich) ==
    [SheetName |-> sheet, Axis |-> axis, Text |-> text, RichText |-> runs, IsRich |-> isRich]

\* the zero Job: what a task holds when it holds no job
NoJob == MkJob("", "", <<>>, <<>>, FALSE)

MkResult(job, converted, newRuns) ==
    [Job |-> job, Converted |-> converted, NewRuns |-> newRuns, Error |-> "nil"]

NoResult == MkResult(NoJob, <<>>, <<>>)

\* the document operations a worker performs for one job: none, the worker
\* computes on the job's runs only
WorkerDocOps_ReadsRichText(job) == {"GetCellRichText"}

WorkerDocOps(job) == {}

\* the body of the worker's loop: the Result it sends for a job
WorkerResult(job) ==
    IF Len(job.RichText) > 0
    THEN MkResult([job EXCEPT !.RichText = AliasedRuns(job.RichText), !.IsRich = TRUE],
                  <<>>, TransformRuns(job.RichText))
    ELSE MkResult([job EXCEPT !.IsRich = FALSE], job.Text, <<>>)

(***************************************************************************)
(* State of one Processor.Run                                              *)
(***************************************************************************)
VARIABLES
    input,          \* the document at InputPath when Run starts
    sheetName,      \* p.SheetName
    progressSet,    \* whether SetProgressChan was called
    f,              \* p.f: the open document, cell -> contents
    saved,          \* the file SaveAs wrote
    sheets,         \* the sheets Run scans
    mainPc,         \* position of the goroutine that runs Run (the collector)
    ret,            \* what Run returned
    processed,      \* p.processed
    res,            \* the collector's loop variable
    dispPc,         \* position of the dispatcher goroutine
    dSheet,         \* index of the dispatcher's sheet in sheets
    dRow,           \* rowIdx
    dCol,           \* colIdx + 1
    dRaced,         \* the dispatcher's current read overlapped a write-back
    dJob,           \* the job the dispatcher is sending
    jobs,           \* p.jobs
    jobsClosed,
    results,        \* p.results
    resultsClosed,
    wPc,            \* position of each worker
    wRes,           \* the result each worker is sending
    wg,             \* the WaitGroup counter
    closerPc,       \* position of the goroutine that closes p.results
    progressChan,   \* p.progressChan
    progressClosed, \* the progress channel was closed
    forwardPc,      \* position of the goroutine App.Process starts to forward progress
    ctxDone,        \* the caller cancelled ctx
    faults,         \* the library calls that failed
    emitted,        \* the jobs sent on p.jobs so far
    reported,       \* the values sent on p.progressChan so far
    written,        \* the cells SetCellRichText has set so far
    docLog,         \* <<task, operation>> for every call made on p.f
    call,           \* a call of one function of the packages on its own
    reply           \* what that call returned

vars ==
    <<input, sheetName, progressSet, f, saved, sheets, mainPc, ret, processed,
      res, dispPc, dSheet, dRow, dCol, dRaced, dJob, jobs, jobsClosed, results,
      resultsClosed, wPc, wRes, wg, closerPc, progressChan, progressClosed,
      forwardPc, ctxDone, faults, emitted, reported, written, docLog, call, reply>>

unitVars == <<call, reply>>

pipelineVars ==
    <<input, sheetName, progressSet, f, saved, sheets, mainPc, ret, processed,
      res, dispPc, dSheet, dRow, dCol, dRaced, dJob, jobs, jobsClosed, results,
      resultsClosed, wPc, wRes, wg, closerPc, progressChan, progressClosed,
      forwardPc, ctxDone, faults, emitted, reported, written, docLog>>

mainVars == <<f, saved, sheets, mainPc, ret, processed, res, progressChan, written>>

dispVars == <<dispPc, dSheet, dRow, dCol, dJob>>

workerVars == <<wPc, wRes, wg>>

appVars == <<progressClosed, forwardPc>>

envVars == <<input, sheetName, progressSet, ctxDone, appVars>>

NoFile == [exists |-> FALSE, path |-> "", cells |-> <<>>]

NoReturn == [returned |-> FALSE, path |-> "", err |-> "nil"]

Return(path, err) == [returned |-> TRUE, path |-> path, err |-> err]

Fault(kind, sheet, row, axis) == <<kind, sheet, row, axis>>

CanFail == Cardinality(faults) < MaxFaults

\* a call of one function: its name and its arguments
MkCall(fn, fontName, text, runs, path, timestamp) ==
    [fn |-> fn, fontName |-> fontName, text |-> text, runs |-> runs,
     path |-> path, timestamp |-> timestamp]

NoCall == MkCall("", "", <<>>, <<>>, "", "")

\* what a call returned: the encoding, text, Result, runs or path of its
\* return type, and the caller's runs as the call left them
MkReply(enc, text, result, runs, argRuns, path) ==
    [done |-> TRUE, enc |-> enc, text |-> text, result |-> result,
     runs |-> runs, argRuns |-> argRuns, path |-> path]

NoReply == [MkReply("", <<>>, NoResult, <<>>, <<>>, "") EXCEPT !.done = FALSE]

\* App.Process starts the goroutine that forwards progress right after
\* SetProgressChan; a caller that sets no channel starts none
ForwarderStart(chanSet) == IF chanSet THEN "range" ELSE "none"

Init ==
    /\ input \in Docs
    /\ sheetName \in SheetNames
    /\ progressSet \in BOOLEAN
    /\ f = <<>>
    /\ saved = NoFile
    /\ sheets = <<>>
    /\ mainPc = "open"
    /\ ret = NoReturn
    /\ processed = 0
    /\ res = NoResult
    /\ dispPc = "idle"
    /\ dSheet = 0
    /\ dRow = 0
    /\ dCol = 0
    /\ dRaced = FALSE
    /\ dJob = NoJob
    /\ jobs = <<>>
    /\ jobsClosed = FALSE
    /\ results = <<>>
    /\ resultsClosed = FALSE
    /\ wPc = [w \in Workers |-> "idle"]
    /\ wRes = [w \in Workers |-> NoResult]
    /\ wg = 0
    /\ closerPc = "idle"
    /\ progressChan = <<>>
    /\ progressClosed = FALSE
    /\ forwardPc = ForwarderStart(progressSet)
    /\ ctxDone = FALSE
    /\ faults = {}
    /\ emitted = {}
    /\ reported = <<>>
    /\ written = {}
    /\ docLog = {}
    /\ call = NoCall
    /\ reply = NoReply

(***************************************************************************)
(* Run up to the start of the pipeline                                     *)
(***************************************************************************)
\* excelize.OpenFile
MainOpen ==
    /\ mainPc = "open"
    /\ \/ /\ f' = input
          /\ mainPc' = "validate"
          /\ docLog' = docLog \cup {<<"main", "OpenFile">>}
          /\ UNCHANGED <<ret, faults>>
       \/ /\ CanFail
          /\ faults' = faults \cup {Fault("open", "", 0, "")}
          /\ ret' = Return("", "failed to open excel")
          /\ mainPc' = "done"
          /\ UNCHANGED <<f, docLog>>
    /\ UNCHANGED <<saved, sheets, processed, res, progressChan, written>>
    /\ UNCHANGED <<dispVars, dRaced, workerVars, envVars>>
    /\ UNCHANGED <<jobs, jobsClosed, results, resultsClosed, closerPc, emitted, reported, unitVars>>

\* the loop that looks p.SheetName up in GetSheetList
SheetFound_NotChecked == TRUE

SheetFound == \E i \in 1..Len(SheetList) : SheetList[i] = sheetName

\* sheet %s not found
MainSheetNotFound ==
    /\ mainPc = "validate"
    /\ sheetName # ""
    /\ ~SheetFound
    /\ ret' = Return("", "sheet not found")
    /\ mainPc' = "done"
    /\ docLog' = docLog \cup {<<"main", "GetSheetList">>, <<"main", "Close">>}
    /\ UNCHANGED <<f, saved, sheets, processed, res, progressChan, written>>
    /\ UNCHANGED <<dispVars, dRaced, workerVars, envVars, faults>>
    /\ UNCHANGED <<jobs, jobsClosed, results, resultsClosed, closerPc, emitted, reported, unitVars>>

\* the sheets the dispatcher scans: all of GetSheetList, or the one named
SheetsToScan_All(name) == SheetList

SheetsToScan(name) == IF name = "" THEN SheetList ELSE <<name>>

\* the WaitGroup counter after the loop that starts the workers: wg.Add(1)
\* before each go p.worker(&wg)
WgAfterStart_OneShort == workerCount - 1

WgAfterStart == workerCount

\* start the workers, the dispatcher and the goroutine that closes p.results
MainStart ==
    /\ mainPc = "validate"
    /\ sheetName = "" \/ SheetFound
    /\ sheets' = SheetsToScan(sheetName)
    /\ wPc' = [w \in Workers |-> "recv"]
    /\ wg' = WgAfterStart
    /\ dispPc' = "sheet"
    /\ dSheet' = 1
    /\ closerPc' = "wait"
    /\ processed' = 0
    /\ mainPc' = "recv"
    /\ docLog' = docLog \cup {<<"main", "GetSheetList">>}
    /\ UNCHANGED <<f, saved, ret, res, progressChan, written, wRes>>
    /\ UNCHANGED <<dRow, dCol, dJob, dRaced, envVars, faults>>
    /\ UNCHANGED <<jobs, jobsClosed, results, resultsClosed, emitted, reported, unitVars>>

(***************************************************************************)
(* The dispatcher goroutine                                                *)
(***************************************************************************)
dSheetName == sheets[dSheet]

dAxis == CoordinatesToCellName(dCol, dRow)

dCell == <<dSheetName, dAxis>>

\* the collector is inside SetCellRichText
CollectorWriting == mainPc = "write"

\* p.f.Rows(sheet); a sheet that cannot be read is passed over
DispOpenSheet ==
    /\ dispPc = "sheet"
    /\ dSheet <= Len(sheets)
    /\ \/ /\ dRow' = 0
          /\ dispPc' = "row"
          /\ UNCHANGED <<dSheet, faults>>
       \/ /\ CanFail
          /\ faults' = faults \cup {Fault("rows", dSheetName, 0, "")}
          /\ dSheet' = dSheet + 1
          /\ UNCHANGED <<dRow, dispPc>>
    /\ docLog' = docLog \cup {<<"dispatcher", "Rows">>}
    /\ UNCHANGED <<dCol, dJob, dRaced, mainVars, workerVars, envVars>>
    /\ UNCHANGED <<jobs, jobsClosed, results, resultsClosed, closerPc, emitted, reported, unitVars>>

\* rows.Next() and rows.Columns(), with a return in place of the continue
DispNextRow_AbortsOnError ==
    /\ dispPc = "row"
    /\ IF dRow >= NumRows
       THEN /\ dSheet' = dSheet + 1
            /\ dispPc' = "sheet"
            /\ UNCHANGED <<dRow, dCol, faults>>
       ELSE /\ dRow' = dRow + 1
            /\ \/ /\ dCol' = 1
                  /\ dispPc' = "cell"
                  /\ UNCHANGED <<dSheet, faults>>
               \/ /\ CanFail
                  /\ faults' = faults \cup {Fault("columns", dSheetName, dRow + 1, "")}
                  /\ dSheet' = Len(sheets) + 1
                  /\ dispPc' = "sheet"
                  /\ UNCHANGED dCol
    /\ docLog' = docLog \cup {<<"dispatcher", "Rows.Next">>}
    /\ UNCHANGED <<dJob, dRaced, mainVars, workerVars, envVars>>
    /\ UNCHANGED <<jobs, jobsClosed, results, resultsClosed, closerPc, emitted, reported, unitVars>>

\* rows.Next() and rows.Columns(); a row that cannot be read is passed over
DispNextRow ==
    /\ dispPc = "row"
    /\ IF dRow >= NumRows
       THEN /\ dSheet' = dSheet + 1
            /\ dispPc' = "sheet"
            /\ UNCHANGED <<dRow, dCol, faults>>
       ELSE /\ dRow' = dRow + 1
            /\ \/ /\ dCol' = 1
                  /\ dispPc' = "cell"
                  /\ UNCHANGED faults
               \/ /\ CanFail
                  /\ faults' = faults \cup {Fault("columns", dSheetName, dRow + 1, "")}
                  /\ UNCHANGED <<dCol, dispPc>>
            /\ UNCHANGED dSheet
    /\ docLog' = docLog \cup {<<"dispatcher", "Rows.Next">>}
    /\ UNCHANGED <<dJob, dRaced, mainVars, workerVars, envVars>>
    /\ UNCHANGED <<jobs, jobsClosed, results, resultsClosed, closerPc, emitted, reported, unitVars>>

\* a send on a buffered channel goes through when the buffer has room, and
\* blocks until then
HasRoom_Always(queue, cap) == TRUE

HasRoom(queue, cap) == Len(queue) < cap

\* strings.TrimSpace(text) == "": the dispatcher passes the cell over
SkipsCell_Never(text) == FALSE

SkipsCell(text) == IsBlankText(text)

\* top of the loop over cols: the cell name, then the blank test; the
\* dispatcher goes on to read the runs of a non-blank cell
DispCell ==
    /\ dispPc = "cell"
    /\ IF dCol > NumCols
       THEN /\ dispPc' = "row"
            /\ UNCHANGED <<dCol, dRaced, faults>>
       ELSE \/ /\ CanFail
               /\ faults' = faults \cup {Fault("coord", dSheetName, dRow, dAxis)}
               /\ dCol' = dCol + 1
               /\ UNCHANGED <<dispPc, dRaced>>
            \/ /\ SkipsCell(input[dCell].Text)
               /\ dCol' = dCol + 1
               /\ UNCHANGED <<dispPc, dRaced, faults>>
            \/ /\ ~SkipsCell(input[dCell].Text)
               /\ dispPc' = "read"
               /\ dRaced' = CollectorWriting
               /\ UNCHANGED <<dCol, faults>>
    /\ UNCHANGED <<dSheet, dRow, dJob, mainVars, workerVars, envVars, docLog>>
    /\ UNCHANGED <<jobs, jobsClosed, results, resultsClosed, closerPc, emitted, reported, unitVars>>

\* what GetCellRichText can return: the runs of the cell, or, when the read
\* ran while the collector was writing to the same document, also no runs
RichTextRead(cell, raced) ==
    IF raced THEN {f[cell].Rich, <<>>} ELSE {f[cell].Rich}

\* the font name of the cell style: GetCellStyle, then GetStyle
StyleFontName(cell) == IF f[cell].Style.isNil THEN "" ELSE f[cell].Style.Family

\* the Job for a cell whose GetCellRichText returned runs
BuildJob_NoSyntheticRun(sheet, axis, text, runs) ==
    MkJob(sheet, axis, text, runs, Len(runs) > 0)

BuildJob(sheet, axis, text, runs) ==
    IF Len(runs) > 0
    THEN MkJob(sheet, axis, text, runs, TRUE)
    ELSE MkJob(sheet, axis, text,
               <<MkRun(text, MkFont(StyleFontName(<<sheet, axis>>), 11, FALSE))>>,
               FALSE)

\* GetCellRichText, GetCellStyle and GetStyle return
DispEndRead ==
    /\ dispPc = "read"
    /\ \E runs \in RichTextRead(dCell, dRaced \/ CollectorWriting) :
          /\ dJob' = BuildJob(dSheetName, dAxis, input[dCell].Text, runs)
          /\ docLog' = docLog \cup
                 ({<<"dispatcher", "GetCellRichText">>} \cup
                  IF Len(runs) > 0 THEN {}
                  ELSE {<<"dispatcher", "GetCellStyle">>, <<"dispatcher", "GetStyle">>})
    /\ dispPc' = "send"
    /\ dRaced' = FALSE
    /\ UNCHANGED <<dSheet, dRow, dCol, mainVars, workerVars, envVars, faults>>
    /\ UNCHANGED <<jobs, jobsClosed, results, resultsClosed, closerPc, emitted, reported, unitVars>>

\* p.jobs <- Job{...}: blocks while the queue is full
DispSend ==
    /\ dispPc = "send"
    /\ HasRoom(jobs, JobsCap)
    /\ jobs' = Append(jobs, dJob)
    /\ emitted' = emitted \cup {dJob}
    /\ UNCHANGED <<reported, unitVars>>
    /\ dJob' = NoJob
    /\ dCol' = dCol + 1
    /\ dispPc' = "cell"
    /\ UNCHANGED <<dSheet, dRow, dRaced, mainVars, workerVars, envVars, faults>>
    /\ UNCHANGED <<jobsClosed, results, resultsClosed, closerPc, docLog>>

\* the deferred close(p.jobs), after the last sheet
DispClose ==
    /\ dispPc = "sheet"
    /\ dSheet > Len(sheets)
    /\ jobsClosed' = TRUE
    /\ dispPc' = "done"
    /\ UNCHANGED <<dSheet, dRow, dCol, dJob, dRaced, mainVars, workerVars, envVars>>
    /\ UNCHANGED <<jobs, results, resultsClosed, closerPc, faults, emitted, reported, docLog, unitVars>>

(***************************************************************************)
(* The workers and the goroutine that waits for them                       *)
(***************************************************************************)
\* p.jobs after a worker received from it: the job is taken out
AfterReceive_KeepsJob(queue) == queue

AfterReceive(queue) == Tail(queue)

\* for job := range p.jobs, and the body of the loop up to the send
WorkerRecv(w) ==
    /\ wPc[w] = "recv"
    /\ jobs # <<>>
    /\ wRes' = [wRes EXCEPT ![w] = WorkerResult(Head(jobs))]
    /\ jobs' = AfterReceive(jobs)
    /\ wPc' = [wPc EXCEPT ![w] = "send"]
    /\ docLog' = docLog \cup {<<"worker", op>> : op \in WorkerDocOps(Head(jobs))}
    /\ UNCHANGED <<wg, dispVars, dRaced, mainVars, envVars, faults, emitted, reported, unitVars>>
    /\ UNCHANGED <<jobsClosed, results, resultsClosed, closerPc>>

\* p.results <- res: blocks while the queue is full
WorkerSend(w) ==
    /\ wPc[w] = "send"
    /\ HasRoom(results, ResultsCap)
    /\ results' = Append(results, wRes[w])
    /\ wRes' = [wRes EXCEPT ![w] = NoResult]
    /\ wPc' = [wPc EXCEPT ![w] = "recv"]
    /\ UNCHANGED <<wg, dispVars, dRaced, mainVars, envVars, faults, emitted, reported, unitVars>>
    /\ UNCHANGED <<jobs, jobsClosed, resultsClosed, closerPc, docLog>>

\* wg.Done()
WgDone_Forgotten(n) == n

WgDone(n) == n - 1

\* the range loop ends on the closed, empty queue; the deferred wg.Done()
WorkerExit(w) ==
    /\ wPc[w] = "recv"
    /\ jobs = <<>>
    /\ jobsClosed
    /\ wPc' = [wPc EXCEPT ![w] = "exited"]
    /\ wg' = WgDone(wg)
    /\ UNCHANGED <<wRes, dispVars, dRaced, mainVars, envVars, faults, emitted, reported, unitVars>>
    /\ UNCHANGED <<jobs, jobsClosed, results, resultsClosed, closerPc, docLog>>

\* wg.Wait() returns
WaitDone_NoWait == TRUE

WaitDone == wg = 0

\* wg.Wait(); close(p.results)
Closer ==
    /\ closerPc = "wait"
    /\ WaitDone
    /\ resultsClosed' = TRUE
    /\ closerPc' = "done"
    /\ UNCHANGED <<dispVars, dRaced, mainVars, workerVars, envVars, faults, emitted, reported, unitVars>>
    /\ UNCHANGED <<jobs, jobsClosed, results, docLog>>

(***************************************************************************)
(* The collector: the loop over p.results, then the save                   *)
(***************************************************************************)
\* SetCellRichText(sheet, axis, runs) on the document
SetCellRichText(doc, cell, runs) ==
    [doc EXCEPT ![cell] = MkCell(ConcatText(runs), runs, doc[cell].Style)]

\* the cell a result is written back to
TargetCell(r) == <<r.Job.SheetName, r.Job.Axis>>

\* for res := range p.results: receive; a result with an error is passed over,
\* any other result goes to SetCellRichText
CollRecv ==
    /\ mainPc = "recv"
    /\ results # <<>>
    /\ res' = Head(results)
    /\ results' = Tail(results)
    /\ mainPc' = IF Head(results).Error # "nil" THEN "recv" ELSE "write"
    /\ UNCHANGED <<f, saved, sheets, ret, processed, progressChan, written>>
    /\ UNCHANGED <<dispVars, dRaced, workerVars, envVars, faults, emitted, reported, unitVars>>
    /\ UNCHANGED <<jobs, jobsClosed, resultsClosed, closerPc, docLog>>

\* p.processed after a result was handled whose write-back failed or not
ProcessedAfterWrite_SkipsFailed(count, failed) == IF failed THEN count ELSE count + 1

ProcessedAfterWrite(count, failed) == count + 1

\* if p.progressChan != nil: where the collector goes after p.processed++
AfterCount_SkipsReport(chanSet) == "recv"

AfterCount(chanSet) == IF chanSet THEN "report" ELSE "recv"

\* SetCellRichText returns (a failed write is only printed), p.processed++
CollEndWrite ==
    /\ mainPc = "write"
    /\ \/ /\ f' = SetCellRichText(f, TargetCell(res), res.NewRuns)
          /\ written' = written \cup {TargetCell(res)}
          /\ processed' = ProcessedAfterWrite(processed, FALSE)
          /\ UNCHANGED faults
       \/ /\ CanFail
          /\ faults' = faults \cup {Fault("write", res.Job.SheetName, 0, res.Job.Axis)}
          /\ processed' = ProcessedAfterWrite(processed, TRUE)
          /\ UNCHANGED <<f, written>>
    /\ mainPc' = AfterCount(progressSet)
    /\ dRaced' = (dRaced \/ dispPc = "read")
    /\ docLog' = docLog \cup {<<"main", "SetCellRichText">>}
    /\ UNCHANGED <<saved, sheets, ret, res, progressChan>>
    /\ UNCHANGED <<dispVars, workerVars, envVars, emitted, reported, unitVars>>
    /\ UNCHANGED <<jobs, jobsClosed, results, resultsClosed, closerPc>>

\* float64(p.processed): the value the collector sends
ReportedValue_SendsIncrement(count) == 1

ReportedValue(count) == count

\* p.progressChan <- float64(p.processed): blocks while the channel is full
CollReport ==
    /\ mainPc = "report"
    /\ HasRoom(progressChan, ProgressCap)
    /\ progressChan' = Append(progressChan, ReportedValue(processed))
    /\ reported' = Append(reported, ReportedValue(processed))
    /\ mainPc' = "recv"
    /\ UNCHANGED <<f, saved, sheets, ret, processed, res, written>>
    /\ UNCHANGED <<dispVars, dRaced, workerVars, envVars, faults, emitted, unitVars>>
    /\ UNCHANGED <<jobs, jobsClosed, results, resultsClosed, closerPc, docLog>>

\* the range loop ends on the closed, empty p.results
CollDone ==
    /\ mainPc = "recv"
    /\ results = <<>>
    /\ resultsClosed
    /\ mainPc' = "save"
    /\ UNCHANGED <<f, saved, sheets, ret, processed, res, progressChan, written>>
    /\ UNCHANGED <<dispVars, dRaced, workerVars, envVars, faults, emitted, reported, unitVars>>
    /\ UNCHANGED <<jobs, jobsClosed, results, resultsClosed, closerPc, docLog>>

\* what Run returns after SaveAs(outputPath) returned err
SaveReturn_IgnoresError(outputPath, failed) == Return(outputPath, "nil")

SaveReturn(outputPath, failed) ==
    IF failed THEN Return("", "save failed") ELSE Return(outputPath, "nil")

\* p.f.SaveAs(outputPath) and the return
MainSave ==
    /\ mainPc = "save"
    /\ \E ts \in Timestamps :
          \/ /\ saved' = [exists |-> TRUE, path |-> OutputPath(InputPath, ts), cells |-> f]
             /\ ret' = SaveReturn(OutputPath(InputPath, ts), FALSE)
             /\ UNCHANGED faults
          \/ /\ CanFail
             /\ faults' = faults \cup {Fault("save", "", 0, "")}
             /\ ret' = SaveReturn(OutputPath(InputPath, ts), TRUE)
             /\ UNCHANGED saved
    /\ mainPc' = "done"
    /\ docLog' = docLog \cup {<<"main", "SaveAs">>, <<"main", "Close">>}
    /\ UNCHANGED <<f, sheets, processed, res, progressChan, written>>
    /\ UNCHANGED <<dispVars, dRaced, workerVars, envVars, emitted, reported, unitVars>>
    /\ UNCHANGED <<jobs, jobsClosed, results, resultsClosed, closerPc>>

(***************************************************************************)
(* The caller's side                                                       *)
(***************************************************************************)
\* the goroutine of App.Process that drains the progress channel: for prog
\* := range progressChan receives a value, or ends on the closed and empty
\* channel
ConsumerRecv ==
    /\ forwardPc = "range"
    /\ \/ /\ progressChan # <<>>
          /\ progressChan' = Tail(progressChan)
          /\ UNCHANGED forwardPc
       \/ /\ progressChan = <<>>
          /\ progressClosed
          /\ forwardPc' = "exited"
          /\ UNCHANGED progressChan
    /\ UNCHANGED <<f, saved, sheets, mainPc, ret, processed, res, written>>
    /\ UNCHANGED <<input, sheetName, progressSet, ctxDone, progressClosed>>
    /\ UNCHANGED <<dispVars, dRaced, workerVars, faults, emitted, reported, unitVars>>
    /\ UNCHANGED <<jobs, jobsClosed, results, resultsClosed, closerPc, docLog>>

\* the caller cancels the context it passed to Run
Cancel ==
    /\ ~ctxDone
    /\ mainPc # "done"
    /\ ctxDone' = TRUE
    /\ UNCHANGED <<input, sheetName, progressSet, appVars>>
    /\ UNCHANGED <<mainVars, dispVars, dRaced, workerVars, faults, emitted, reported, unitVars>>
    /\ UNCHANGED <<jobs, jobsClosed, results, resultsClosed, closerPc, docLog>>

Next ==
    \/ MainOpen
    \/ MainSheetNotFound
    \/ MainStart
    \/ DispOpenSheet
    \/ DispNextRow
    \/ DispCell
    \/ DispEndRead
    \/ DispSend
    \/ DispClose
    \/ \E w \in Workers : WorkerRecv(w)
    \/ \E w \in Workers : WorkerSend(w)
    \/ \E w \in Workers : WorkerExit(w)
    \/ Closer
    \/ CollRecv
    \/ CollEndWrite
    \/ CollReport
    \/ CollDone
    \/ MainSave
    \/ ConsumerRecv
    \/ Cancel

Spec == Init /\ [][Next]_vars

\* the receive of WorkerRecv(w): the worker leaves the head of p.jobs with it
WorkerTakesJob(w) ==
    /\ wPc[w] = "recv"
    /\ jobs # <<>>
    /\ wPc' = [wPc EXCEPT ![w] = "send"]
    /\ jobs' = Tail(jobs)

\* every task of the pipeline that can take a step eventually takes one, and
\* the consumer of the progress channel keeps receiving
Fairness ==
    /\ WF_vars(MainOpen \/ MainSheetNotFound \/ MainStart \/ CollRecv
               \/ CollEndWrite \/ CollReport \/ CollDone \/ MainSave)
    /\ WF_vars(DispOpenSheet \/ DispNextRow \/ DispCell \/ DispEndRead
               \/ DispSend \/ DispClose)
    /\ \A w \in Workers : WF_<<wPc, jobs>>(WorkerTakesJob(w))
    /\ \A w \in Workers : WF_vars(WorkerSend(w) \/ WorkerExit(w))
    /\ WF_vars(Closer)
    /\ WF_vars(ConsumerRecv)

LiveSpec == Init /\ [][Next]_vars /\ Fairness

(***************************************************************************)
(* The functions of the packages called on their own: the detector, the    *)
(* two decoders, the body of the worker's loop over one job, the           *)
(* FormatPreserver and the derivation of the output path                   *)
(***************************************************************************)
MaxTextLen == 2

MaxRuns == 2

\* H, a, E, o, space, the control character U+001E, and code points the
\* tables and the detector know
TextAlphabet == {72, 97, 69, 111, 32, 30, 214, 246, 249, 216, 194, 197, 241, 202, 185}

RECURSIVE SeqsUpTo(_, _)
SeqsUpTo(S, n) ==
    IF n = 0 THEN {<<>>}
    ELSE LET shorter == SeqsUpTo(S, n - 1)
         IN  shorter \cup {Append(t, x) : t \in {u \in shorter : Len(u) = n - 1}, x \in S}

\* a letter of the two vowel tables followed by a marker rune
VowelMarkerTexts ==
    {<<v, m>> : v \in (DOMAIN vowelCombinations) \cup (DOMAIN combinedVowelTones),
                m \in DOMAIN vniToneMarkers}

\* one code point of the TCVN3 table
TCVN3KeyTexts == {<<tcvn3Pairs[k][1]>> : k \in 1..Len(tcvn3Pairs)}

Texts == SeqsUpTo(TextAlphabet, MaxTextLen) \cup VowelMarkerTexts \cup TCVN3KeyTexts

\* the marker runes of a circumflex, a breve or a horn
StackMarkers ==
    {m \in DOMAIN vniToneMarkers : vniToneMarkers[m] \in {"circumflex", "horn"}}
    \cup {197, 229}

\* the marker runes of the five tones
ToneMarkers ==
    {m \in DOMAIN vniToneMarkers :
        vniToneMarkers[m] \in {"grave", "acute", "hook", "tilde", "dot"}}

\* a base letter, then a circumflex, breve or horn marker, then a tone marker
StackingTexts ==
    {<<v, m, t>> : v \in DOMAIN vowelCombinations, m \in StackMarkers, t \in ToneMarkers}

\* "Vi\u00D6t Nam", "C\u00F6ng ty", "Hello World" and "\u00F6u ti\u00EAn"
ScenarioTexts ==
    {<<86, 105, 214, 116, 32, 78, 97, 109>>,
     <<67, 246, 110, 103, 32, 116, 121>>,
     <<72, 101, 108, 108, 111, 32, 87, 111, 114, 108, 100>>,
     <<246, 117, 32, 116, 105, 101, 226, 110>>}

\* the sequences preprocessVNI rewrites: "\u00D6\u00D4", "\u00D6O", "\u00D6\u00F8"
PrePassSequences == {<<214, 212>>, <<214, 79>>, <<214, 248>>}

\* nothing, a vowel or a consonant before such a sequence; nothing, a tone
\* marker or a consonant after it
PrePassPrefixes == {<<>>, <<97>>, <<86>>}

PrePassSuffixes == {<<>>, <<116>>} \cup {<<t>> : t \in ToneMarkers}

PrePassTexts ==
    {p \o q \o t : p \in PrePassPrefixes, q \in PrePassSequences, t \in PrePassSuffixes}
    \cup {q \o r : q \in PrePassSequences, r \in PrePassSequences}

\* a breve marker after nothing, after a letter, and after a letter with a
\* tone marker
BreveTexts ==
    {t \o <<b>> : t \in {<<>>, <<72>>, <<97, 216>>, <<72, 97>>}
                      \cup {<<v>> : v \in DOMAIN vowelCombinations},
                  b \in {197, 229}}

\* the texts the decoders are called with
DecoderTexts ==
    Texts \cup StackingTexts \cup ScenarioTexts \cup PrePassTexts \cup BreveTexts

FontNames == {"", "Arial", "VNI-Times", "VNI-Book", ".VnTime", ".VnBook"}

\* "H", "aù" and the TCVN3 code point of ạ
RunTexts == {<<72>>, <<97, 249>>, <<185>>}

\* no font, each font name without attributes, and a legacy and a modern
\* font in 14 pt bold italic underlined red
RunFonts ==
    {NilFont}
    \cup {MkFont(n, 0, FALSE) : n \in FontNames}
    \cup {MkStyledFont(n, 14, TRUE, TRUE, "single", "FF0000") : n \in {"VNI-Times", "Arial"}}

Runs == {MkRun(t, fnt) : t \in RunTexts, fnt \in RunFonts}

RunSeqs == SeqsUpTo(Runs, MaxRuns) \ {<<>>}

\* jobs of one run: a letter with a marker, a code point of the TCVN3 table
\* or a scenario text, in each font
SingleRunJobs ==
    {<<MkRun(t, fnt)>> : t \in VowelMarkerTexts \cup TCVN3KeyTexts \cup ScenarioTexts,
                         fnt \in RunFonts}

InputPaths == {"contract.xlsx", "in/q1.data.xls", "v1.2/book", "book", ".xlsx"}

\* FormatPreserver.converter.ToUnicode
ConverterToUnicode(conv, text) ==
    IF conv = EncodingVNI THEN VNIToUnicode(text) ELSE TCVN3ToUnicode(text)

\* the body of the loop of ProcessRichText: newRuns[i]
ProcessRichTextRun(conv, run) ==
    MkRun(ConverterToUnicode(conv, run.Text),
          IF run.Font.isNil THEN MkFont("Arial", 11, FALSE)
          ELSE IF run.Font.Family \in DOMAIN FontMap
          THEN [run.Font EXCEPT !.Family = FontMap[run.Font.Family]]
          ELSE [run.Font EXCEPT !.Family = "Arial"])

ProcessRichText(conv, runs) ==
    [i \in 1..Len(runs) |-> ProcessRichTextRun(conv, runs[i])]

\* the caller's runs after ProcessRichText: newRun.Font is the pointer of
\* run.Font, so the Family it sets is the Family of the caller's Font
ProcessRichTextArg(conv, runs) ==
    [i \in 1..Len(runs) |->
        IF runs[i].Font.isNil THEN runs[i]
        ELSE MkRun(runs[i].Text, ProcessRichTextRun(conv, runs[i]).Font)]

UnitInit ==
    /\ input = [c \in Cells |-> BlankCell]
    /\ sheetName = ""
    /\ progressSet = FALSE
    /\ f = <<>>
    /\ saved = NoFile
    /\ sheets = <<>>
    /\ mainPc = "open"
    /\ ret = NoReturn
    /\ processed = 0
    /\ res = NoResult
    /\ dispPc = "idle"
    /\ dSheet = 0
    /\ dRow = 0
    /\ dCol = 0
    /\ dRaced = FALSE
    /\ dJob = NoJob
    /\ jobs = <<>>
    /\ jobsClosed = FALSE
    /\ results = <<>>
    /\ resultsClosed = FALSE
    /\ wPc = [w \in Workers |-> "idle"]
    /\ wRes = [w \in Workers |-> NoResult]
    /\ wg = 0
    /\ closerPc = "idle"
    /\ progressChan = <<>>
    /\ progressClosed = FALSE
    /\ forwardPc = ForwarderStart(progressSet)
    /\ ctxDone = FALSE
    /\ faults = {}
    /\ emitted = {}
    /\ reported = <<>>
    /\ written = {}
    /\ docLog = {}
    /\ reply = NoReply
    /\ call \in
          {MkCall(fn, n, t, <<>>, "", "") :
              fn \in {"DetectEncoding", "DetectEncodingEarlier"},
              n \in FontNames, t \in Texts}
          \cup {MkCall(fn, "", t, <<>>, "", "") :
                  fn \in {"VNIToUnicode", "TCVN3ToUnicode"}, t \in DecoderTexts}
          \cup {MkCall("worker", "", ConcatText(rs), rs, "", "") :
                  rs \in RunSeqs \cup SingleRunJobs}
          \cup {MkCall("ProcessRichText", conv, <<>>, rs, "", "") :
                  conv \in {EncodingVNI, EncodingTCVN3}, rs \in RunSeqs}
          \cup {MkCall("OutputPath", "", <<>>, <<>>, path, ts) :
                  path \in InputPaths, ts \in Timestamps}

Calling(fn) == call.fn = fn /\ ~reply.done

CallDetectEncoding ==
    /\ Calling("DetectEncoding")
    /\ reply' = MkReply(DetectEncoding(call.fontName, call.text), <<>>, NoResult, <<>>, <<>>, "")
    /\ UNCHANGED <<call, pipelineVars>>

CallDetectEncodingEarlier ==
    /\ Calling("DetectEncodingEarlier")
    /\ reply' = MkReply(DetectEncodingEarlier(call.fontName, call.text), <<>>, NoResult, <<>>, <<>>, "")
    /\ UNCHANGED <<call, pipelineVars>>

CallVNIToUnicode ==
    /\ Calling("VNIToUnicode")
    /\ reply' = MkReply("", VNIToUnicode(call.text), NoResult, <<>>, <<>>, "")
    /\ UNCHANGED <<call, pipelineVars>>

CallTCVN3ToUnicode ==
    /\ Calling("TCVN3ToUnicode")
    /\ reply' = MkReply("", TCVN3ToUnicode(call.text), NoResult, <<>>, <<>>, "")
    /\ UNCHANGED <<call, pipelineVars>>

\* the body of the worker's loop for one job read from a cell
CallWorker ==
    /\ Calling("worker")
    /\ LET job == MkJob("Sheet1", "A1", call.text, call.runs, TRUE)
           result == WorkerResult(job)
       IN  reply' = MkReply("", <<>>, result, result.NewRuns, result.Job.RichText, "")
    /\ UNCHANGED <<call, pipelineVars>>

CallProcessRichText ==
    /\ Calling("ProcessRichText")
    /\ reply' = MkReply("", <<>>, NoResult,
                        ProcessRichText(call.fontName, call.runs),
                        ProcessRichTextArg(call.fontName, call.runs), "")
    /\ UNCHANGED <<call, pipelineVars>>

\* the derivation of outputPath at the end of Run
CallOutputPath ==
    /\ Calling("OutputPath")
    /\ reply' = MkReply("", <<>>, NoResult, <<>>, <<>>, OutputPath(call.path, call.timestamp))
    /\ UNCHANGED <<call, pipelineVars>>

UnitNext ==
    \/ CallDetectEncoding
    \/ CallDetectEncodingEarlier
    \/ CallVNIToUnicode
    \/ CallTCVN3ToUnicode
    \/ CallWorker
    \/ CallProcessRichText
    \/ CallOutputPath

UnitSpec == UnitInit /\ [][UnitNext]_vars

\* a call has returned
Returned(fn) == call.fn = fn /\ reply.done

(***************************************************************************)
(* Notions the properties are stated with                                  *)
(***************************************************************************)
\* the cells of the sheets Run scans
SelectedCells == {c \in Cells : c[1] \in SeqToSet(sheets)}

CellsOfRow(sheet, row) ==
    {<<sheet, CoordinatesToCellName(c, row)>> : c \in 1..NumCols}

\* the cells the dispatcher passed over because a read of the sheet, of the
\* row or the cell name failed
SkippedCells ==
    {c \in Cells :
        \E flt \in faults :
            \/ flt[1] = "rows" /\ flt[2] = c[1]
            \/ flt[1] = "columns" /\ c \in CellsOfRow(flt[2], flt[3])
            \/ flt[1] = "coord" /\ flt[2] = c[1] /\ flt[4] = c[2]}

\* the cells whose write-back failed
WriteFailedCells == {c \in Cells : \E flt \in faults : flt[1] = "write" /\ flt[2] = c[1] /\ flt[4] = c[2]}

FatalFault == \E flt \in faults : flt[1] \in {"open", "save"}

SheetMissing == sheetName # "" /\ sheetName \notin SeqToSet(SheetList)

\* the runs a cell of the input document holds: its rich text, or for a plain
\* cell the one run of its text in the font of its style
InputRuns(c) ==
    IF Len(input[c].Rich) > 0 THEN input[c].Rich
    ELSE <<MkRun(input[c].Text,
                 MkFont(IF input[c].Style.isNil THEN "" ELSE input[c].Style.Family, 11, FALSE))>>

\* the dispatcher is inside a read of the document
DispatcherReading ==
    \/ dispPc = "sheet" /\ dSheet <= Len(sheets)
    \/ dispPc = "row"
    \/ dispPc = "read"

PipelineStopped ==
    /\ jobsClosed
    /\ jobs = <<>>
    /\ \A w \in Workers : wPc[w] = "exited"
    /\ resultsClosed
    /\ results = <<>>

(***************************************************************************)
(* C1: during Run no read of the document by the dispatcher overlaps a     *)
(* write-back by the collector.                                            *)
(***************************************************************************)
C1_NoReadOverlapsWrite == ~(DispatcherReading /\ CollectorWriting)

(***************************************************************************)
(* C2: no worker ever reads or writes the document: every call on the      *)
(* document is made by the goroutine of Run or by the dispatcher, and what *)
(* a worker holds is computed from its job alone.                          *)
(***************************************************************************)
C2_WorkersNeverTouchDocument ==
    /\ \A e \in docLog : e[1] \in {"main", "dispatcher"}
    /\ \A w \in Workers : wRes[w] \in {NoResult} \cup {WorkerResult(j) : j \in emitted}

C2_Witness ==
    /\ \E w \in Workers : wPc[w] = "send" /\ Len(wRes[w].NewRuns) = 2
    /\ <<"dispatcher", "GetCellRichText">> \in docLog

(***************************************************************************)
(* C3: whatever the schedule, the runs written back to a cell are the      *)
(* transformation of that cell's own input runs.                           *)
(***************************************************************************)
C3_WrittenRunsAreOwnTransform ==
    \A c \in written : f[c].Rich = TransformRuns(InputRuns(c))

(***************************************************************************)
(* C4: when Run finishes, the processed count equals the number K of       *)
(* non-blank cells of the selected sheets.                                 *)
(***************************************************************************)
C4_ProcessedEqualsNonBlank ==
    (mainPc = "done" /\ sheets # <<>>) =>
        processed = Cardinality(NonBlank(input, SelectedCells))

\* C4 as amended: when Run finishes, the processed count equals the number of
\* non-blank cells of the selected sheets that the dispatcher did not pass
\* over because a read of their sheet, of their row or their cell name failed.
C4_ProcessedEqualsDispatched ==
    (mainPc = "done" /\ sheets # <<>>) =>
        /\ processed = Cardinality(NonBlank(input, SelectedCells \ SkippedCells))
        /\ processed = Cardinality(emitted)

C4_Witness ==
    /\ mainPc = "done"
    /\ processed >= 1
    /\ NonBlank(input, SelectedCells \cap SkippedCells) # {}

(***************************************************************************)
(* C5: under fair scheduling Run eventually returns, and when the pipeline *)
(* was started the job queue is then closed and empty, every worker has    *)
(* exited and the result stream is closed and drained.                     *)
(***************************************************************************)
C5_RunReturns ==
    <>(/\ mainPc = "done"
       /\ ret.returned
       /\ (sheets # <<>> => (PipelineStopped /\ dispPc = "done")))

C5_Witness ==
    /\ mainPc = "done"
    /\ saved.exists
    /\ processed >= 2
    /\ progressSet

(***************************************************************************)
(* C6: when the save starts the job queue is closed and empty, every       *)
(* worker has exited, the result stream is closed and empty and every job  *)
(* sent has been handled; nothing is written back from then on.            *)
(***************************************************************************)
SaveReached == mainPc \in {"save", "done"}

NoWriteBack == f' = f /\ written' = written

C6_SaveAfterLastWriteBack ==
    /\ []((SaveReached /\ sheets # <<>>) =>
             (PipelineStopped /\ processed = Cardinality(emitted)))
    /\ [][SaveReached => NoWriteBack]_vars

C6_Witness ==
    /\ mainPc = "save"
    /\ Cardinality(written) >= 2

(***************************************************************************)
(* C7: once the caller's cancellation signal has fired, the dispatcher,    *)
(* at its next check between two cells, goes on to no further cell.        *)
(***************************************************************************)
C7_NoCellAfterCancel ==
    [][(ctxDone /\ dispPc = "cell") => dispPc' # "read"]_vars

(***************************************************************************)
(* C8: when the requested sheet is not in the document, no worker and no   *)
(* dispatcher is started, no job is sent, no cell is written, nothing is   *)
(* saved, and Run returns an empty path with an error.                     *)
(***************************************************************************)
C8_MissingSheetAborts ==
    SheetMissing =>
        /\ \A w \in Workers : wPc[w] = "idle"
        /\ dispPc = "idle"
        /\ closerPc = "idle"
        /\ emitted = {}
        /\ jobs = <<>>
        /\ written = {}
        /\ ~saved.exists
        /\ (mainPc = "done" => (ret.path = "" /\ ret.err # "nil"))

C8_Witness ==
    /\ SheetMissing
    /\ mainPc = "done"
    /\ ret.err = "sheet not found"

(***************************************************************************)
(* C9: a failure of a row read, of a cell name or of a write-back does not *)
(* abort the batch: the cells it concerns are passed over, every other     *)
(* non-blank cell of the selected sheets is sent, converted and written    *)
(* back, the document is saved and Run returns without error.              *)
(***************************************************************************)
C9_PerCellFailureDoesNotAbort ==
    (mainPc = "done" /\ sheets # <<>> /\ ~FatalFault) =>
        /\ ret.err = "nil"
        /\ saved.exists
        /\ saved.cells = f
        /\ \A c \in NonBlank(input, SelectedCells) \ (SkippedCells \cup WriteFailedCells) :
              /\ c \in written
              /\ \E j \in emitted : <<j.SheetName, j.Axis>> = c
        /\ \A c \in SkippedCells \cup WriteFailedCells : c \notin written

C9_Witness ==
    /\ mainPc = "done"
    /\ ret.err = "nil"
    /\ \E flt \in faults : flt[1] = "columns"
    /\ NonBlank(input, SkippedCells) # {}
    /\ written # {}

(***************************************************************************)
(* C10: Run returns either a non-empty path and no error, or an empty path *)
(* and an error; it returns an error exactly when the document cannot be   *)
(* opened, the requested sheet is absent or the save fails.                *)
(***************************************************************************)
C10_ReturnOutcomes ==
    mainPc = "done" =>
        /\ ret.returned
        /\ \/ ret.path # "" /\ ret.err = "nil"
           \/ ret.path = "" /\ ret.err # "nil"
        /\ (ret.err # "nil" <=> (FatalFault \/ SheetMissing))
        /\ (ret.err = "nil" => (saved.exists /\ saved.path = ret.path))

C10_Witness ==
    /\ mainPc = "done"
    /\ Fault("save", "", 0, "") \in faults
    /\ ret.path = ""
    /\ processed >= 1

(***************************************************************************)
(* C11: the values sent on the progress channel during one Run are         *)
(* 1, 2, 3, ... in this order: the n-th value sent is n, none is repeated  *)
(* or out of order, in whatever order the results arrive.                  *)
(***************************************************************************)
C11_ProgressCountsUp ==
    /\ \A n \in 1..Len(reported) : reported[n] = n
    /\ \A n \in 1..Len(progressChan) :
          progressChan[n] = Len(reported) - Len(progressChan) + n

\* two values were sent, the second for a cell dispatched before the cell
\* of the first or after a write-back that failed
C11_Witness ==
    /\ progressSet
    /\ mainPc = "done"
    /\ Len(reported) = 2
    /\ processed = 2

(***************************************************************************)
(* C12: the output path is the input path without its extension, followed  *)
(* by "_output_", a timestamp YYYY_MM_DD_HH_MM_SS and the extension of     *)
(* the input; it lies in the folder of the input and differs from the      *)
(* input path.                                                             *)
(***************************************************************************)
Digits == {"0", "1", "2", "3", "4", "5", "6", "7", "8", "9"}

\* YYYY_MM_DD_HH_MM_SS
IsTimestamp(ts) ==
    /\ Len(ts) = 19
    /\ \A i \in 1..19 :
          IF i \in {5, 8, 11, 14, 17} THEN SubSeq(ts, i, i) = "_"
          ELSE SubSeq(ts, i, i) \in Digits

RECURSIVE LastSlash(_, _)
LastSlash(path, i) ==
    IF i < 1 THEN 0
    ELSE IF SubSeq(path, i, i) = "/" THEN i
    ELSE LastSlash(path, i - 1)

\* the folder of a path, with its last separator
Folder(path) == SubSeq(path, 1, LastSlash(path, Len(path)))

\* input path -> <<the path without its extension, the extension>>
BaseAndExtension ==
    ("contract.xlsx" :> <<"contract", ".xlsx">>) @@
    ("in/q1.data.xls" :> <<"in/q1.data", ".xls">>) @@
    ("v1.2/book" :> <<"v1.2/book", "">>) @@
    ("book" :> <<"book", "">>) @@
    (".xlsx" :> <<"", ".xlsx">>)

C13_EveryOutputRunHasFont ==
    Returned("worker") =>
        \A i \in 1..Len(reply.runs) : RunFontName(reply.runs[i]) # ""

\* C13 as amended: every run whose input run was classified as first or
\* second encoding, or whose input font name was not empty, has a non-empty
\* font name after the transformation.
C13_DecodedOrNamedRunHasFont ==
    Returned("worker") =>
        /\ Len(reply.runs) = Len(call.runs)
        /\ \A i \in 1..Len(call.runs) :
              (\/ DetectEncoding(RunFontName(call.runs[i]), call.runs[i].Text) # EncodingUnkown
               \/ RunFontName(call.runs[i]) # "")
                  => RunFontName(reply.runs[i]) # ""

\* a run without a font, decoded on the evidence of its text, got a font
C13_Witness ==
    /\ Returned("worker")
    /\ \E i \in 1..Len(call.runs) :
          /\ call.runs[i].Font.isNil
          /\ reply.runs[i].Text # call.runs[i].Text
          /\ RunFontName(reply.runs[i]) = "Arial"

(***************************************************************************)
(* C14: the Conversion Result of a Cell Job has exactly as many runs as    *)
(* the job, and its i-th run is the transformation of the job's i-th run.  *)
(***************************************************************************)
C14_RunsCorrespond ==
    Returned("worker") =>
        /\ Len(reply.result.NewRuns) = Len(call.runs)
        /\ \A i \in 1..Len(call.runs) :
              reply.result.NewRuns[i] = TransformRun(call.runs[i])

\* two runs, the first left as it is and the second decoded
C14_Witness ==
    /\ Returned("worker")
    /\ Len(call.runs) = 2
    /\ DetectEncoding(RunFontName(call.runs[1]), call.runs[1].Text) = EncodingUnkown
    /\ DetectEncoding(RunFontName(call.runs[2]), call.runs[2].Text) = EncodingTCVN3
    /\ reply.result.NewRuns[1].Text = call.runs[1].Text
    /\ reply.result.NewRuns[2].Text # call.runs[2].Text

(***************************************************************************)
(* C15: a run whose font name has an entry in the font table carries the   *)
(* mapped font; a run without an entry that was classified as first or     *)
(* second encoding carries "Arial"; a run classified Unknown keeps its     *)
(* font name exactly.                                                      *)
(***************************************************************************)
C15_FontRemapping ==
    Returned("worker") =>
        /\ Len(reply.runs) = Len(call.runs)
        /\ \A i \in 1..Len(call.runs) :
              LET name == RunFontName(call.runs[i])
                  encoding == DetectEncoding(name, call.runs[i].Text)
              IN  /\ name \in DOMAIN FontMap
                        => RunFontName(reply.runs[i]) = FontMap[name]
                  /\ (name \notin DOMAIN FontMap /\ encoding # EncodingUnkown)
                        => RunFontName(reply.runs[i]) = "Arial"
                  /\ encoding = EncodingUnkown
                        => reply.runs[i].Font = call.runs[i].Font

\* a run of an unlisted legacy font was decoded and got the default font,
\* and a run classified Unknown that has no font was left without one
C15_Witness ==
    /\ Returned("worker")
    /\ Len(call.runs) = 2
    /\ RunFontName(call.runs[1]) = "VNI-Book"
    /\ RunFontName(reply.runs[1]) = "Arial"
    /\ call.runs[2] = MkRun(<<72>>, NilFont)
    /\ reply.runs[2].Font.isNil

(***************************************************************************)
(* C16: for every run and every classification the output run has the      *)
(* size, bold, italic, underline and colour of the input run; only the     *)
(* text and the font name change.                                          *)
(***************************************************************************)
\* the attributes of a run's font; a run without a font has none set
Attributes(run) ==
    <<run.Font.Size, run.Font.Bold, run.Font.Italic, run.Font.Underline, run.Font.Color>>

C16_AttributesPreserved ==
    Returned("worker") =>
        /\ Len(reply.runs) = Len(call.runs)
        /\ \A i \in 1..Len(call.runs) :
              Attributes(reply.runs[i]) = Attributes(call.runs[i])

\* a bold, italic, underlined, red run of each classification went through
C16_Witness ==
    /\ Returned("worker")
    /\ Len(call.runs) = 2
    /\ call.runs[1].Font = MkStyledFont("VNI-Times", 14, TRUE, TRUE, "single", "FF0000")
    /\ reply.runs[1].Font = MkStyledFont("Times New Roman", 14, TRUE, TRUE, "single", "FF0000")
    /\ call.runs[2] = MkRun(<<72>>, MkStyledFont("Arial", 14, TRUE, TRUE, "single", "FF0000"))
    /\ reply.runs[2] = call.runs[2]

(***************************************************************************)
(* C17: transforming the runs of a Cell Job has no effect beyond the       *)
(* returned runs: after the worker, or ProcessRichText, has produced the   *)
(* new runs, the text and the font name of every input run are what they   *)
(* were when the job was created.                                          *)
(***************************************************************************)
C17_InputRunsUntouched ==
    (Returned("worker") \/ Returned("ProcessRichText")) =>
        /\ Len(reply.argRuns) = Len(call.runs)
        /\ \A i \in 1..Len(call.runs) :
              /\ reply.argRuns[i].Text = call.runs[i].Text
              /\ RunFontName(reply.argRuns[i]) = RunFontName(call.runs[i])

(***************************************************************************)
(* C18: the font name outranks the text in detection: a font name that     *)
(* begins with "VNI-" gives the first encoding and one that begins with    *)
(* ".Vn" the second, whatever the text contains.                           *)
(***************************************************************************)
C18_FontNameOutranksContent ==
    (Returned("DetectEncoding") \/ Returned("DetectEncodingEarlier")) =>
        /\ HasPrefix(call.fontName, "VNI-") => reply.enc = EncodingVNI
        /\ HasPrefix(call.fontName, ".Vn") => reply.enc = EncodingTCVN3

\* a .Vn font with a text of first-encoding code points only, and a VNI-
\* font with a text of second-encoding code points only or an empty text
C18_Witness ==
    \/ /\ Returned("DetectEncoding")
       /\ call.fontName = ".VnTime"
       /\ call.text = <<97, 216>>
       /\ reply.enc = EncodingTCVN3
    \/ /\ Returned("DetectEncodingEarlier")
       /\ call.fontName = "VNI-Book"
       /\ call.text = <<185>>
       /\ reply.enc = EncodingVNI

(***************************************************************************)
(* C19: the transformation of a run depends on the font name and the text  *)
(* of that run only: with any other runs in the cell its output is that    *)
(* of the run alone; in a cell of one first-encoding run and one plain run *)
(* classified Unknown only the text of the first-encoding run changes.     *)
(***************************************************************************)
\* the output of the worker for the cell that holds this run alone
AloneOutput(run) == WorkerResult(MkJob("Sheet1", "A1", run.Text, <<run>>, TRUE)).NewRuns[1]

C19_RunTransformedOnItsOwn ==
    Returned("worker") =>
        /\ Len(reply.runs) = Len(call.runs)
        /\ \A i \in 1..Len(call.runs) :
              /\ reply.runs[i] = AloneOutput(call.runs[i])
              /\ (/\ ~HasPrefix(RunFontName(call.runs[i]), "VNI-")
                  /\ ~HasPrefix(RunFontName(call.runs[i]), ".Vn")
                  /\ ~ContainsAny(call.runs[i].Text, VNIContentChars \cup TCVN3ContentChars))
                     => reply.runs[i] = call.runs[i]

\* "aù" in VNI-Times followed by "H" in Arial: "á" and "H"
C19_Witness ==
    /\ Returned("worker")
    /\ call.runs = <<MkRun(<<97, 249>>, MkFont("VNI-Times", 0, FALSE)),
                     MkRun(<<72>>, MkFont("Arial", 0, FALSE))>>
    /\ reply.runs = <<MkRun(<<225>>, MkFont("Times New Roman", 0, FALSE)),
                      MkRun(<<72>>, MkFont("Arial", 0, FALSE))>>

(***************************************************************************)
(* C20: round trip over the tables: for every entry (vowel, tone) of the   *)
(* first-level and second-level tables and every marker rune of the tone,  *)
(* the first decoder turns the vowel followed by the marker into the       *)
(* composed letter of the table; for every entry of the second encoding's  *)
(* table the second decoder returns the mapped letter.                     *)
(***************************************************************************)
\* the composed letter the tables give for a letter and a tone
TableLetter(v, tone) ==
    IF v \in DOMAIN combinedVowelTones
    THEN combinedVowelTones[v][tone]
    ELSE vowelCombinations[v][tone]

TableTones(v) ==
    IF v \in DOMAIN combinedVowelTones
    THEN DOMAIN combinedVowelTones[v]
    ELSE IF v \in DOMAIN vowelCombinations THEN DOMAIN vowelCombinations[v]
    ELSE {}

C20_TableRoundTrip ==
    /\ Returned("VNIToUnicode") =>
          ((/\ Len(call.text) = 2
            /\ call.text[2] \in DOMAIN vniToneMarkers
            /\ vniToneMarkers[call.text[2]] \in TableTones(call.text[1]))
              => reply.text = <<TableLetter(call.text[1], vniToneMarkers[call.text[2]])>>)
    /\ Returned("TCVN3ToUnicode") =>
          \A k \in 1..Len(tcvn3Pairs) :
              call.text = <<tcvn3Pairs[k][1]>> => reply.text = <<tcvn3Pairs[k][2]>>

(***************************************************************************)
(* C21: stacking: a base letter followed by a circumflex, breve or horn    *)
(* marker and then a tone marker decodes to exactly one rune, the letter   *)
(* with both marks.                                                        *)
(***************************************************************************)
\* the letter a base letter makes with a circumflex, breve or horn marker;
\* 0 when Vietnamese has no such letter
MarkedLetter(v, m) ==
    IF m \in {197, 229}
    THEN (IF v = 97 THEN 259 ELSE IF v = 65 THEN 258 ELSE 0)
    ELSE IF vniToneMarkers[m] = "horn"
    THEN (IF v = 111 THEN 417 ELSE IF v = 79 THEN 416
          ELSE IF v = 117 THEN 432 ELSE IF v = 85 THEN 431 ELSE 0)
    ELSE (IF v \in {97, 65, 101, 69, 111, 79}
          THEN vowelCombinations[v]["circumflex"] ELSE 0)

C21_StackedMarkersCompose ==
    (Returned("VNIToUnicode") /\ call.text \in StackingTexts) =>
        LET marked == MarkedLetter(call.text[1], call.text[2])
        IN  marked # 0 =>
               reply.text = <<combinedVowelTones[marked][vniToneMarkers[call.text[3]]]>>

(***************************************************************************)
(* C22: a tone-marker rune with no valid combination target in the output  *)
(* before it (no output, or a last rune with no table entry for the tone)  *)
(* is in the output of ToUnicode unchanged at its position, neither        *)
(* dropped nor replaced.                                                   *)
(***************************************************************************)
\* the text before its last rune, and what the scan has put out for it
TextBefore(text) == SubSeq(text, 1, Len(text) - 1)

OutputBefore(text) == convertVNICombining(TextBefore(text))

\* the last rune of the text is a tone marker without a combination target
MarkerWithoutTarget(text) ==
    /\ Len(text) >= 1
    /\ text[Len(text)] \in DOMAIN vniToneMarkers
    /\ \/ OutputBefore(text) = <<>>
       \/ ~combineToneStandard(OutputBefore(text)[Len(OutputBefore(text))],
                               vniToneMarkers[text[Len(text)]]).ok

EndsInPrePassSequence(text) ==
    /\ Len(text) >= 2
    /\ text[Len(text) - 1] = 214
    /\ text[Len(text)] \in {212, 79, 248}

IsASCII(text) == \A i \in 1..Len(text) : text[i] \in 0..127

DecoderReturned == Returned("VNIToUnicode") \/ Returned("TCVN3ToUnicode")

C23_ASCIIUnchanged ==
    (DecoderReturned /\ IsASCII(call.text)) => reply.text = call.text

\* C23 as amended: the TCVN3 decoder returns every ASCII string as it is,
\* the VNI decoder every ASCII string without U+001E.
C23_ASCIIWithoutRSUnchanged ==
    /\ (Returned("TCVN3ToUnicode") /\ IsASCII(call.text)) => reply.text = call.text
    /\ (Returned("VNIToUnicode") /\ IsASCII(call.text)
            /\ \A i \in 1..Len(call.text) : call.text[i] # 30)
         => reply.text = call.text

\* "Hello World" through the VNI decoder
C23_Witness ==
    /\ Returned("VNIToUnicode")
    /\ call.text = <<72, 101, 108, 108, 111, 32, 87, 111, 114, 108, 100>>
    /\ reply.text = call.text

(***************************************************************************)
(* C24: a decoder is the identity on every text with none of the runes it  *)
(* recognizes: for the VNI decoder the tone, breve and D-stroke markers    *)
(* and the keys of legacyReplacer, for the TCVN3 decoder the keys of its   *)
(* table.                                                                  *)
(***************************************************************************)
PairKeys(pairs) == {pairs[k][1] : k \in 1..Len(pairs)}

VNIRecognized ==
    DOMAIN vniToneMarkers \cup {197, 229, 209, 241} \cup PairKeys(vniLegacyPairs)

HasNone(text, S) == \A i \in 1..Len(text) : text[i] \notin S

C24_IdentityWithoutMarkers ==
    /\ (Returned("VNIToUnicode") /\ HasNone(call.text, VNIRecognized))
         => reply.text = call.text
    /\ (Returned("TCVN3ToUnicode") /\ HasNone(call.text, PairKeys(tcvn3Pairs)))
         => reply.text = call.text

\* "H¹" has no rune the VNI decoder recognizes: ¹ is a key of TCVN3 only
C24_Witness ==
    /\ Returned("VNIToUnicode")
    /\ call.text = <<72, 185>>
    /\ HasNone(call.text, VNIRecognized)
    /\ reply.text = <<72, 185>>

(***************************************************************************)
(* C25: ToUnicode of the VNI decoder returns an output for every input,    *)
(* the empty text and texts that begin with a tone, breve or horn marker   *)
(* included: the scan never indexes the last element of an empty result.   *)
(***************************************************************************)
C25_NeverIndexesEmptyResult ==
    Returned("VNIToUnicode") => reply.text # Panicked

\* a text that begins with the horn marker has been decoded
C25_Witness ==
    /\ Returned("VNIToUnicode")
    /\ call.text = <<214, 97>>
    /\ reply.text # Panicked

(***************************************************************************)
(* C26: a horn marker (Ö or ö) that does not combine through the tables    *)
(* puts the fixed glyph ệ after the preceding output rune when that rune   *)
(* is a vowel of the first-level or second-level table, and otherwise puts *)
(* a horned letter of its own in the output, Ư for Ö and ư for ö.  Stated  *)
(* for the texts that end in a horn marker.                                *)
(***************************************************************************)
KnownVowel(r) == r \in DOMAIN vowelCombinations \/ r \in DOMAIN combinedVowelTones

HornMarkerLast(text) ==
    /\ Len(text) >= 1
    /\ text[Len(text)] \in {214, 246}
    /\ \/ OutputBefore(text) = <<>>
       \/ ~combineToneStandard(OutputBefore(text)[Len(OutputBefore(text))], "horn").ok

TieBreakLetter(text) ==
    IF OutputBefore(text) # <<>> /\ KnownVowel(OutputBefore(text)[Len(OutputBefore(text))])
    THEN 7879
    ELSE IF text[Len(text)] = 214 THEN 431 ELSE 432

C26_HornTieBreak ==
    (Returned("VNIToUnicode") /\ HornMarkerLast(call.text)) =>
        reply.text = Append(VNIToUnicode(TextBefore(call.text)), TieBreakLetter(call.text))

(***************************************************************************)
(* C27: the TCVN3 decoder substitutes rune for rune in one pass: a rune    *)
(* that is a key of the table is replaced by the key's letter, every other *)
(* rune is copied, and a letter put out is not substituted again.          *)
(***************************************************************************)
\* the letters the table gives for a key
TCVN3Letters(r) == {tcvn3Pairs[k][2] : k \in {j \in 1..Len(tcvn3Pairs) : tcvn3Pairs[j][1] = r}}

C27_RuneForRuneSinglePass ==
    Returned("TCVN3ToUnicode") =>
        /\ Len(reply.text) = Len(call.text)
        /\ \A i \in 1..Len(call.text) :
              IF call.text[i] \in PairKeys(tcvn3Pairs)
              THEN TCVN3Letters(call.text[i]) = {reply.text[i]}
              ELSE reply.text[i] = call.text[i]

\* "Cöng ty" is decoded to "Công ty": ö gives ô, and ô, a key itself, stays
C27_Witness ==
    /\ Returned("TCVN3ToUnicode")
    /\ call.text = <<67, 246, 110, 103, 32, 116, 121>>
    /\ reply.text = <<67, 244, 110, 103, 32, 116, 121>>
    /\ 244 \in PairKeys(tcvn3Pairs)

(***************************************************************************)
(* C28: when a sheet name is given and exists, every Job is for a cell of  *)
(* that sheet, every write-back is to a cell of that sheet, and the cells  *)
(* of every other sheet are, in the open document and in the saved file,   *)
(* as they were in the input; when the sheet name is empty, the dispatcher *)
(* scans every sheet of the document.                                      *)
(***************************************************************************)
JobCell(job) == <<job.SheetName, job.Axis>>

EmittedCells == {JobCell(j) : j \in emitted}

OtherSheetsAs(doc) == \A c \in Cells : c[1] # sheetName => doc[c] = input[c]

C28_SheetSelection ==
    /\ (sheetName # "" /\ SheetFound) =>
          /\ \A c \in EmittedCells \cup written : c[1] = sheetName
          /\ dJob # NoJob => dJob.SheetName = sheetName
          /\ f # <<>> => OtherSheetsAs(f)
          /\ saved.exists => OtherSheetsAs(saved.cells)
    /\ (sheetName = "" /\ dispPc # "idle") =>
          /\ sheets = SheetList
          /\ dispPc = "done" => NonBlank(input, Cells \ SkippedCells) \subseteq EmittedCells

\* Run with the name of the second sheet has returned: a cell of that sheet
\* was written back, and the first sheet has a cell with text too
C28_Witness ==
    /\ sheetName = "Sheet2"
    /\ mainPc = "done"
    /\ saved.exists
    /\ \E c \in written : c[1] = "Sheet2"
    /\ NonBlank(input, {c \in Cells : c[1] = "Sheet1"}) # {}

\* Run without a sheet name has put out a Job for a cell of each sheet
C28_WitnessAllSheets ==
    /\ sheetName = ""
    /\ dispPc = "done"
    /\ {c[1] : c \in EmittedCells} = SeqToSet(SheetList)

(***************************************************************************)
(* C29: the dispatcher emits exactly one Job for every cell of the         *)
(* selected sheets whose trimmed text is not empty and none for a cell     *)
(* whose trimmed text is empty; no two Jobs are for the same cell, and     *)
(* Jobs enter the queue in scan order: sheet by sheet, rows top to bottom, *)
(* columns left to right.                                                  *)
(***************************************************************************)
\* where the scan meets a cell: sheet, row and column
ScanPosition(c) ==
    CHOOSE p \in (1..Len(sheets)) \X (1..NumRows) \X (1..NumCols) :
        sheets[p[1]] = c[1] /\ CoordinatesToCellName(p[3], p[2]) = c[2]

ScannedBefore(c, d) ==
    LET p == ScanPosition(c)
        q == ScanPosition(d)
    IN  \/ p[1] < q[1]
        \/ p[1] = q[1] /\ p[2] < q[2]
        \/ p[1] = q[1] /\ p[2] = q[2] /\ p[3] < q[3]

DispatcherDone == dispPc = "done"

JobsSoFar ==
    /\ EmittedCells \subseteq NonBlank(input, SelectedCells \ SkippedCells)
    /\ Cardinality(emitted) = Cardinality(EmittedCells)
    /\ DispatcherDone => EmittedCells = NonBlank(input, SelectedCells \ SkippedCells)
    /\ \A i, j \in 1..Len(jobs) : i < j => ScannedBefore(JobCell(jobs[i]), JobCell(jobs[j]))

\* a send on p.jobs, and what holds of it: the Job is for a cell that has
\* no Job yet and comes after every cell that has one, and it goes to the
\* tail of the queue
JobSent == dispPc = "send" /\ dispPc' = "cell"

SendInScanOrder ==
    /\ JobCell(dJob) \notin EmittedCells
    /\ \A c \in EmittedCells : ScannedBefore(c, JobCell(dJob))
    /\ jobs' = Append(jobs, dJob)

SendingWorkers == {w \in Workers : wPc[w] = "send"}

\* the cells of the Jobs and Results under way, place by place
QueuedCells == {JobCell(jobs[i]) : i \in 1..Len(jobs)}

WorkerCells == {TargetCell(wRes[w]) : w \in SendingWorkers}

ResultCells == {TargetCell(results[i]) : i \in 1..Len(results)}

CollectorCells == IF mainPc = "write" THEN {TargetCell(res)} ELSE {}

UnderWay == QueuedCells \cup WorkerCells \cup ResultCells \cup CollectorCells

NumUnderWay ==
    Len(jobs) + Cardinality(SendingWorkers) + Len(results) + Cardinality(CollectorCells)

\* the cells whose Result the collector has handled
HandledCells == written \cup WriteFailedCells

C30_EachJobOnceThroughPipeline ==
    /\ NumUnderWay + processed = Cardinality(emitted)
    /\ Cardinality(UnderWay) = NumUnderWay
    /\ Cardinality(HandledCells) = processed
    /\ UnderWay \cap HandledCells = {}
    /\ UnderWay \cup HandledCells = EmittedCells
    /\ \A i \in 1..Len(jobs) : jobs[i] \in emitted
    /\ \A w \in SendingWorkers : \E j \in emitted : wRes[w] = WorkerResult(j)
    /\ \A i \in 1..Len(results) : \E j \in emitted : results[i] = WorkerResult(j)
    /\ mainPc = "write" => \E j \in emitted : res = WorkerResult(j)
    /\ (mainPc = "done" /\ sheets # <<>>) => UnderWay = {}

\* both workers hold a Result at once, while the collector writes nothing yet
C30_Witness ==
    /\ SendingWorkers = Workers
    /\ Cardinality(WorkerCells) = 2
    /\ processed = 0

(***************************************************************************)
(* C31: p.jobs is closed once, by the dispatcher, after its last send;     *)
(* p.results is closed once and only after every worker has exited; the    *)
(* dispatcher never sends on the closed p.jobs and no worker sends on the  *)
(* closed p.results.                                                       *)
(***************************************************************************)
ClosedAfterLastUse ==
    /\ jobsClosed => dispPc = "done"
    /\ ~(jobsClosed /\ dispPc = "send")
    /\ resultsClosed => closerPc = "done" /\ \A w \in Workers : wPc[w] = "exited"
    /\ \A w \in Workers : ~(resultsClosed /\ wPc[w] = "send")

\* the steps that close a channel, and what holds of them: the channel was
\* open, and it is the dispatcher's, or the closing goroutine's, last step
JobsCloseStep == jobsClosed' # jobsClosed \/ (dispPc # "done" /\ dispPc' = "done")

JobsClosedByDispatcher ==
    /\ ~jobsClosed /\ jobsClosed'
    /\ dispPc = "sheet" /\ dispPc' = "done"
    /\ dJob = NoJob

ResultsCloseStep == resultsClosed' # resultsClosed \/ (closerPc # "done" /\ closerPc' = "done")

ResultsClosedAfterWorkers ==
    /\ ~resultsClosed /\ resultsClosed'
    /\ closerPc = "wait" /\ closerPc' = "done"
    /\ \A w \in Workers : wPc[w] = "exited"

C31_ClosureProtocol ==
    /\ []ClosedAfterLastUse
    /\ [][JobsCloseStep => JobsClosedByDispatcher]_vars
    /\ [][ResultsCloseStep => ResultsClosedAfterWorkers]_vars

\* both channels are closed after jobs went through them
C31_Witness ==
    /\ jobsClosed
    /\ resultsClosed
    /\ Cardinality(emitted) = 2
    /\ mainPc = "recv"

(***************************************************************************)
(* C32: the number of Jobs created and not yet written back is at most the *)
(* capacity of p.jobs plus the capacity of p.results plus one per worker   *)
(* plus one held by the dispatcher and one by the collector, whatever the  *)
(* document; neither queue holds more than its capacity.                   *)
(***************************************************************************)
\* the Job the dispatcher has built and not yet sent
DispatcherHolds == IF dJob # NoJob THEN 1 ELSE 0

\* Jobs created whose Result was not handled yet
NotYetWrittenBack == DispatcherHolds + Cardinality(emitted) - processed

C32_BoundedInFlight ==
    /\ Len(jobs) <= JobsCap
    /\ Len(results) <= ResultsCap
    /\ Cardinality(SendingWorkers) <= workerCount
    /\ NotYetWrittenBack =
          DispatcherHolds + Len(jobs) + Cardinality(SendingWorkers) + Len(results)
              + Cardinality(CollectorCells)
    /\ NotYetWrittenBack <= JobsCap + ResultsCap + workerCount + 2

\* p.jobs is full and the dispatcher waits with the next Job in hand
C32_Witness ==
    /\ Len(jobs) = JobsCap
    /\ dispPc = "send"
    /\ dJob # NoJob
    /\ NotYetWrittenBack = 2

(***************************************************************************)
(* C33: for a font name with neither legacy prefix the detector answers    *)
(* VNI when the text has a code point of the VNI set, otherwise TCVN3 when *)
(* it has a code point of the TCVN3 set, otherwise Unknown; a text with    *)
(* code points of both sets is VNI.  For both revisions of the detector,   *)
(* each with its VNI set.                                                  *)
(***************************************************************************)
NoLegacyPrefix(fontName) == ~HasPrefix(fontName, "VNI-") /\ ~HasPrefix(fontName, ".Vn")

HasOneOf(text, S) == \E i \in 1..Len(text) : text[i] \in S

ByContent(enc, text, vniSet) ==
    /\ HasOneOf(text, vniSet) => enc = EncodingVNI
    /\ (~HasOneOf(text, vniSet) /\ HasOneOf(text, TCVN3ContentChars)) => enc = EncodingTCVN3
    /\ (~HasOneOf(text, vniSet) /\ ~HasOneOf(text, TCVN3ContentChars)) => enc = EncodingUnkown

C33_ContentHeuristic ==
    /\ (Returned("DetectEncoding") /\ NoLegacyPrefix(call.fontName))
          => ByContent(reply.enc, call.text, VNIContentChars)
    /\ (Returned("DetectEncodingEarlier") /\ NoLegacyPrefix(call.fontName))
          => ByContent(reply.enc, call.text, VNIContentCharsEarlier)

\* "¹Ø" in Arial: ¹ is of the TCVN3 set only, Ø of the VNI set only
C33_Witness ==
    /\ Returned("DetectEncoding")
    /\ call.fontName = "Arial"
    /\ call.text = <<185, 216>>
    /\ reply.enc = EncodingVNI

(***************************************************************************)
(* C34: the sequences ÖÔ and ÖO are rewritten to ƯƠ and Öø to Ừ before the *)
(* scan: the Ö of such a sequence never meets the horn tie-break, and a    *)
(* tone marker after ÖÔ or ÖO combines with the Ơ (ÖÔ and the grave marker *)
(* give ƯỜ).  Stated for a sequence after nothing, a vowel or a consonant  *)
(* and before nothing, a consonant or a tone marker.                       *)
(***************************************************************************)
\* what the pre-pass makes of a sequence
Rewritten(q) == IF q = <<214, 248>> THEN <<7914>> ELSE <<431, 416>>

\* the decoded sequence q with t after it, where the claim says what it is
DecodedSequence(q, t) ==
    IF t = <<>> \/ t[1] \notin DOMAIN vniToneMarkers THEN Rewritten(q) \o t
    ELSE <<431, combinedVowelTones[416][vniToneMarkers[t[1]]]>>

C34_PrePassBeforeScan ==
    Returned("VNIToUnicode") =>
        /\ \A p \in PrePassPrefixes, q \in PrePassSequences, t \in PrePassSuffixes :
              (/\ call.text = p \o q \o t
               /\ (q = <<214, 248>> => t = <<>> \/ t[1] \notin DOMAIN vniToneMarkers))
                  => reply.text = VNIToUnicode(p) \o DecodedSequence(q, t)
        /\ \A q \in PrePassSequences, r \in PrePassSequences :
              call.text = q \o r => reply.text = Rewritten(q) \o Rewritten(r)

\* ÖÔ and the grave marker Ø after the vowel a give aƯỜ
C34_Witness ==
    /\ Returned("VNIToUnicode")
    /\ call.text = <<97, 214, 212, 216>>
    /\ reply.text = <<97, 431, 7900>>

(***************************************************************************)
(* C35: a breve marker (Å or å) after the output rune a or A replaces that *)
(* rune by ă or Ă, in the case of the letter, and the output does not      *)
(* grow; after any other output rune, or with no output yet, the marker is *)
(* appended as it is.  Stated for the texts that end in a breve marker.    *)
(***************************************************************************)
BreveMarkerLast(text) == Len(text) >= 1 /\ text[Len(text)] \in {197, 229}

LastOutputBefore(text) ==
    IF OutputBefore(text) = <<>> THEN 0 ELSE OutputBefore(text)[Len(OutputBefore(text))]

C35_BreveRule ==
    (Returned("VNIToUnicode") /\ BreveMarkerLast(call.text)) =>
        LET before == VNIToUnicode(TextBefore(call.text))
        IN  /\ LastOutputBefore(call.text) = 97 =>
                 reply.text = [before EXCEPT ![Len(before)] = 259]
            /\ LastOutputBefore(call.text) = 65 =>
                 reply.text = [before EXCEPT ![Len(before)] = 258]
            /\ LastOutputBefore(call.text) \notin {97, 65} =>
                 reply.text = Append(before, call.text[Len(call.text)])

\* A and the lowercase marker å give Ă
C35_Witness ==
    /\ Returned("VNIToUnicode")
    /\ call.text = <<65, 229>>
    /\ reply.text = <<258>>

(***************************************************************************)
(* C36: no key of legacyReplacer is a tone-marker rune or a letter of the  *)
(* combination tables, so the final substitution pass leaves every marker  *)
(* the scan left over and every letter a combination produced as the scan  *)
(* put it out.                                                             *)
(***************************************************************************)
Range(fn) == {fn[x] : x \in DOMAIN fn}

\* the letters the first-level and the second-level table can produce
TableLetters ==
    UNION {Range(vowelCombinations[v]) : v \in DOMAIN vowelCombinations}
    \cup UNION {Range(combinedVowelTones[v]) : v \in DOMAIN combinedVowelTones}

C36_FinalPassSparesMarkerSystem ==
    Returned("VNIToUnicode") =>
        LET scanned == convertVNICombining(call.text)
        IN  /\ Len(reply.text) = Len(scanned)
            /\ \A i \in 1..Len(scanned) :
                  scanned[i] \in (DOMAIN vniToneMarkers) \cup TableLetters
                      => reply.text[i] = scanned[i]

(***************************************************************************)
(* C37: every Job the dispatcher creates has at least one run, so no       *)
(* Result comes from the worker's branch for a Job without runs, and every *)
(* non-blank cell of the selected sheets, a cell whose runs are all        *)
(* classified Unknown included, is written back as runs exactly once.      *)
(***************************************************************************)
\* every run of the cell is classified Unknown
AllRunsUnknown(c) ==
    \A i \in 1..Len(InputRuns(c)) :
        DetectEncoding(RunFontName(InputRuns(c)[i]), InputRuns(c)[i].Text) = EncodingUnkown

\* the Results under way and the one the collector holds
ResultsUnderWay ==
    {wRes[w] : w \in SendingWorkers} \cup SeqToSet(results)
        \cup (IF mainPc = "write" THEN {res} ELSE {})

JobsCarryRuns ==
    /\ \A j \in emitted \cup SeqToSet(jobs) : Len(j.RichText) >= 1
    /\ dispPc = "send" => Len(dJob.RichText) >= 1
    /\ \A r \in ResultsUnderWay : Len(r.NewRuns) = Len(r.Job.RichText) /\ Len(r.NewRuns) >= 1
    /\ \A c \in written : Len(f[c].Rich) >= 1

RunIsOver == mainPc = "done" /\ sheets # <<>>

C37_EveryNonBlankCellWrittenBack ==
    /\ JobsCarryRuns
    /\ RunIsOver =>
          /\ written = NonBlank(input, SelectedCells)
          /\ processed = Cardinality(written)

\* C37 as amended: the same, for the non-blank cells that the dispatcher did
\* not pass over after a failed read and whose write-back did not fail.
C37_EveryDispatchedCellWrittenBack ==
    /\ JobsCarryRuns
    /\ RunIsOver =>
          /\ written = NonBlank(input, SelectedCells \ SkippedCells) \ WriteFailedCells
          /\ processed = Cardinality(written \cup WriteFailedCells)

\* Run is over: a plain cell whose one run is Unknown was written back
C37_Witness ==
    /\ RunIsOver
    /\ \E c \in written : AllRunsUnknown(c) /\ Len(input[c].Rich) = 0 /\ Len(f[c].Rich) = 1

(***************************************************************************)
(* C38: p.processed is incremented once, and when a progress channel is    *)
(* set reported once, for every Result the collector receives without an   *)
(* error, also when SetCellRichText fails for it; at the end of Run it is  *)
(* the number of Jobs dispatched, not the number of cells written.         *)
(***************************************************************************)
CountedOncePerResult ==
    /\ \A r \in ResultsUnderWay : r.Error = "nil"
    /\ processed = Cardinality(written) + Cardinality(WriteFailedCells)
    /\ Len(reported) =
          IF progressSet THEN processed - (IF mainPc = "report" THEN 1 ELSE 0) ELSE 0
    /\ \A i \in 1..Len(reported) : reported[i] = i
    /\ RunIsOver => processed = Cardinality(emitted)

\* SetCellRichText returns to the collector, with an error or without
WriteReturns == mainPc = "write" /\ mainPc' # "write"

CountedThenReported ==
    /\ processed' = processed + 1
    /\ mainPc' = IF progressSet THEN "report" ELSE "recv"

C38_CountedAlsoWhenWriteFails ==
    /\ []CountedOncePerResult
    /\ [][WriteReturns => CountedThenReported]_vars

\* Run is over with a progress channel: a write-back failed, and the count
\* reported last is the number of Jobs, one more than the cells written
C38_Witness ==
    /\ RunIsOver
    /\ progressSet
    /\ WriteFailedCells # {}
    /\ processed = 2
    /\ Cardinality(written) = 1
    /\ reported = <<1, 2>>

(***************************************************************************)
(* C39: the transformation of a run (detect, decode, remap the font) is    *)
(* idempotent: applied to a run it has put out, it returns that run, text  *)
(* and font name unchanged.                                                *)
(***************************************************************************)
C39_TransformIdempotent ==
    Returned("worker") =>
        \A i \in 1..Len(reply.runs) :
            /\ TransformRun(reply.runs[i]).Text = reply.runs[i].Text
            /\ RunFontName(TransformRun(reply.runs[i])) = RunFontName(reply.runs[i])

(***************************************************************************)
(* C40: after App.Process has returned, the goroutine it started to        *)
(* forward the values of the progress channel eventually terminates.       *)
(***************************************************************************)
\* Run has returned to App.Process, which returns right after
ProcessReturned == progressSet /\ mainPc = "done" /\ ret.returned

ForwarderTerminated == forwardPc = "exited"

C40_ForwarderTerminates == ProcessReturned ~> ForwarderTerminated

====
